---- MODULE Spec2Model ----
(***************************************************************************)
(* State-machine model of the RTX Remix ComfyUI nodes (src/nodes).         *)
(*                                                                         *)
(* A node invocation is a call record that moves idle -> await -> done:    *)
(* the host passes keyword arguments, the context wrapper pops `context`,  *)
(* the node body runs up to its next blocking HTTP request, the remote     *)
(* service answers (or the transport fails), and the body resumes until    *)
(* it returns a tuple or raises.                                           *)
(*                                                                         *)
(* A Python str is a sequence of tokens.  A token is an indivisible run of *)
(* characters ("a", "workfile") or one of the characters the code treats   *)
(* specially: "/" "," " " and the percent escapes "%2F" "%20".             *)
(***************************************************************************)
EXTENDS Integers, Sequences, FiniteSets, TLC

VARIABLES
    calls,   \* calls[s]: the invocation in slot s (node, kwargs, position, result)
    self,    \* self[o]: attributes the wrapper stored on node instance o
    http,    \* sequence of HTTP events (requests issued, answers received)
    disk,    \* set of paths that exist on the local filesystem
    classes  \* classes[c]: the class attributes of node class c

vars == <<calls, self, http, disk, classes>>

----------------------------------------------------------------------------
(* Bounds *)

MaxLayers == 4      \* layer entries in one server answer
MaxTypeChars == 3   \* tokens in a comma-separated type string
ChainLen == 3       \* context-threading nodes in a chain

----------------------------------------------------------------------------
(* Python values *)

PyNone == <<"<None>">>          \* the value None where a str is expected

Truthy(s) == s # PyNone /\ s # <<>>

Get(json, key, default) == IF key \in DOMAIN json THEN json[key] ELSE default

RECURSIVE Collapse(_)
Collapse(s) ==
    IF Len(s) < 2 THEN s
    ELSE IF s[1] = "/" /\ s[2] = "/" THEN Collapse(Tail(s))
    ELSE <<s[1]>> \o Collapse(Tail(s))

StripTrailingSlash(s) ==
    IF Len(s) > 1 /\ s[Len(s)] = "/" THEN SubSeq(s, 1, Len(s) - 1) ELSE s

\* pathlib.Path(p).as_posix() for relative paths without "." components:
\* repeated separators collapse, a trailing separator is dropped, "" is ".".
AsPosix(s) == IF s = <<>> THEN <<".">> ELSE StripTrailingSlash(Collapse(s))

posix(layer_id) == IF layer_id = PyNone THEN PyNone ELSE AsPosix(layer_id)

unquote(s) ==
    [i \in 1..Len(s) |->
        IF s[i] = "%2F" THEN "/" ELSE IF s[i] = "%20" THEN " " ELSE s[i]]

quote_plus(s) ==
    [i \in 1..Len(s) |->
        IF s[i] = "/" THEN "%2F"
        ELSE IF s[i] = " " THEN "+"
        ELSE IF s[i] = "%2F" THEN "%252F"
        ELSE IF s[i] = "%20" THEN "%2520"
        ELSE s[i]]

RECURSIVE LStrip(_)
LStrip(s) == IF s # <<>> /\ Head(s) = " " THEN LStrip(Tail(s)) ELSE s

RECURSIVE RStrip(_)
RStrip(s) ==
    IF s # <<>> /\ s[Len(s)] = " " THEN RStrip(SubSeq(s, 1, Len(s) - 1)) ELSE s

strip(s) == RStrip(LStrip(s))

\* s.split(","): the items between the commas, at least one item.
RECURSIVE SplitFrom(_, _)
SplitFrom(s, item) ==
    IF s = <<>> THEN <<item>>
    ELSE IF Head(s) = "," THEN <<item>> \o SplitFrom(Tail(s), <<>>)
    ELSE SplitFrom(Tail(s), Append(item, Head(s)))

split(s) == SplitFrom(s, <<>>)

\* [t.strip() for t in s.split(",")]
StripAll(items) == [i \in 1..Len(items) |-> strip(items[i])]

IsPrefix(p, s) == Len(p) <= Len(s) /\ SubSeq(s, 1, Len(p)) = p

\* re.match(pattern, string) for a pattern of literal tokens: the pattern
\* has to match at the start of the string.
re_match(pattern, string) == IsPrefix(pattern, string)

\* re.compile(pattern) succeeds: a pattern with a group that is opened and
\* never closed is rejected with re.error
re_compiles(pattern) == \A i \in 1..Len(pattern) : pattern[i] # "("

Range(f) == {f[i] : i \in DOMAIN f}

----------------------------------------------------------------------------
(* Effects of running a piece of a node body *)

Return(value, d) == [kind |-> "return", value |-> value, disk |-> d]

Raise(type, info, d) ==
    [kind |-> "raise", error |-> [type |-> type, info |-> info], disk |-> d]

Request(req, step, d) == [kind |-> "request", req |-> req, step |-> step, disk |-> d]

----------------------------------------------------------------------------
(* REST client shim *)

NoError == [type |-> "none", info |-> <<>>]

\* a response body that is not JSON (an HTML error page): text, no keys
NotJson == [text |-> "<html>"]

\* whether json.loads(r.text) / response.json() returns
IsJson(body) == "text" \notin DOMAIN body

\* response.raise_for_status() raises HTTPError for a 4xx or 5xx status and
\* for no other; the error carries the response (status and body).  The
\* handler parses the body for the log before it re-raises, and
\* response.json() raises for a body that is not JSON.
check_response_status_code(response) ==
    IF 400 <= response.status /\ response.status < 600
    THEN IF ~IsJson(response.json)
         THEN [type |-> "JSONDecodeError", info |-> response.json]
         ELSE [type |-> "HTTPError",
               info |-> [status |-> response.status, body |-> response.json]]
    ELSE NoError

HttpGet(ctx, endpoint, target, params) ==
    [method |-> "GET", address |-> ctx.address, port |-> ctx.port,
     endpoint |-> endpoint, target |-> target, data |-> params]

HttpSend(method, ctx, endpoint, target, data) ==
    [method |-> method, address |-> ctx.address, port |-> ctx.port,
     endpoint |-> endpoint, target |-> target, data |-> data]

\* check_response_status_code(r) followed by the rest of the body
Checked(r, d, rest) ==
    LET err == check_response_status_code(r)
    IN  IF err.type # "none" THEN Raise(err.type, err.info, d) ELSE rest

----------------------------------------------------------------------------
(* Values of the node outputs *)

List(s) == [list |-> s]         \* a Python list (distinct from a str)
EmptyStr == <<>>                \* the str ""

Arg(a, name, default) == IF name \in DOMAIN a THEN a[name] ELSE default

NONE == <<"None">>

_layer_types ==
    << <<"autoupscale">>, <<"capture_baker">>, <<"capture">>,
       <<"replacement">>, <<"workfile">>, NONE >>

_texture_types ==
    << <<"DIFFUSE">>, <<"ROUGHNESS">>, <<"ANISOTROPY">>, <<"METALLIC">>,
       <<"EMISSIVE">>, <<"NORMAL_OGL">>, <<"NORMAL_DX">>, <<"NORMAL_OTH">>,
       <<"HEIGHT">>, <<"TRANSMITTANCE">>, <<"MEASUREMENT_DISTANCE">>,
       <<"SINGLE_SCATTERING">>, <<"OTHER">> >>

stringify_layer_type(layer_type) ==
    IF layer_type = PyNone THEN NONE ELSE layer_type

----------------------------------------------------------------------------
(* Type validation: validate_layer_types, validate_texture_types.  Each    *)
(* helper issues one GET; these operators are the part that runs once the  *)
(* request was answered with r, and `rest` is what the caller does after   *)
(* the helper returned.                                                    *)

\* the loop run to its end, raising for the last item it found
RECURSIVE LastInvalid(_, _, _)
LastInvalid(types, valid, i) ==
    IF i > Len(types) THEN 0
    ELSE LET later == LastInvalid(types, valid, i + 1)
         IN  IF later # 0 THEN later
             ELSE IF types[i] \notin valid THEN i ELSE 0

\* `for t in types: if t not in valid: raise ValueError(...)`: the index
\* of the item the loop raises for, 0 when the loop falls through
RECURSIVE FirstInvalid(_, _, _)
FirstInvalid(types, valid, i) ==
    IF i > Len(types) THEN 0
    ELSE IF types[i] \notin valid THEN i
    ELSE FirstInvalid(types, valid, i + 1)

\* a validation of layer types against the answer alone
validate_layer_types_server_only(layer_types, r, d, rest) ==
    Checked(r, d,
        LET valid_layer_types == Range(Get(r.json, "layer_types", <<>>))
            bad == FirstInvalid(layer_types, valid_layer_types, 1)
        IN  IF bad # 0
            THEN Raise("ValueError",
                       [item |-> layer_types[bad], supported |-> valid_layer_types], d)
            ELSE rest)

validate_layer_types(layer_types, r, d, rest) ==
    Checked(r, d,
        LET valid_layer_types == Range(Get(r.json, "layer_types", <<>>)) \cup {NONE}
            bad == FirstInvalid(layer_types, valid_layer_types, 1)
        IN  IF bad # 0
            THEN Raise("ValueError",
                       [item |-> layer_types[bad], supported |-> valid_layer_types], d)
            ELSE rest)

validate_texture_types(texture_types, r, d, rest) ==
    Checked(r, d,
        LET valid_texture_types == Range(Get(r.json, "texture_types", <<>>))
            bad == FirstInvalid(texture_types, valid_texture_types, 1)
        IN  IF bad # 0
            THEN Raise("ValueError",
                       [item |-> texture_types[bad], supported |-> valid_texture_types], d)
            ELSE rest)

LayerTypesRequest(ctx) == HttpGet(ctx, "stagecraft/layers/types", <<>>, <<>>)

TextureTypesRequest(ctx) == HttpGet(ctx, "stagecraft/textures/types", <<>>, <<>>)

----------------------------------------------------------------------------
(* Layer listing: GetLayers.execute *)

\* the loop with the children pushed on the front of the queue
RECURSIVE TraverseDepthFirst(_, _, _, _, _, _)
TraverseDepthFirst(layers_to_process, seen, layer_ids, layer_types, regex_filter, sublayers) ==
    IF Len(layers_to_process) = 0
    THEN [layer_ids |-> layer_ids, layer_types |-> layer_types]
    ELSE LET layer == Head(layers_to_process)
             rest == Tail(layers_to_process)
             layer_id == posix(unquote(layer.layer_id))
             keep == ~Truthy(regex_filter) \/ re_match(regex_filter, layer_id)
         IN  IF layer_id \in seen
             THEN TraverseDepthFirst(rest, seen, layer_ids, layer_types, regex_filter, sublayers)
             ELSE TraverseDepthFirst(
                    IF sublayers THEN layer.children \o rest ELSE rest,
                    seen \cup {layer_id},
                    IF keep THEN Append(layer_ids, layer_id) ELSE layer_ids,
                    IF keep THEN Append(layer_types, stringify_layer_type(layer.layer_type))
                            ELSE layer_types,
                    regex_filter, sublayers)

\* the loop with the enqueue step inside the filter branch
RECURSIVE TraverseMatchedOnly(_, _, _, _, _, _)
TraverseMatchedOnly(layers_to_process, seen, layer_ids, layer_types, regex_filter, sublayers) ==
    IF Len(layers_to_process) = 0
    THEN [layer_ids |-> layer_ids, layer_types |-> layer_types]
    ELSE LET layer == Head(layers_to_process)
             rest == Tail(layers_to_process)
             layer_id == posix(unquote(layer.layer_id))
             keep == ~Truthy(regex_filter) \/ re_match(regex_filter, layer_id)
         IN  IF layer_id \in seen
             THEN TraverseMatchedOnly(rest, seen, layer_ids, layer_types, regex_filter, sublayers)
             ELSE TraverseMatchedOnly(
                    IF sublayers /\ keep THEN rest \o layer.children ELSE rest,
                    seen \cup {layer_id},
                    IF keep THEN Append(layer_ids, layer_id) ELSE layer_ids,
                    IF keep THEN Append(layer_types, stringify_layer_type(layer.layer_type))
                            ELSE layer_types,
                    regex_filter, sublayers)

\* the loop with the enqueue step outside `if sublayers:`
RECURSIVE TraverseAlwaysDescending(_, _, _, _, _, _)
TraverseAlwaysDescending(layers_to_process, seen, layer_ids, layer_types, regex_filter, sublayers) ==
    IF Len(layers_to_process) = 0
    THEN [layer_ids |-> layer_ids, layer_types |-> layer_types]
    ELSE LET layer == Head(layers_to_process)
             rest == Tail(layers_to_process)
             layer_id == posix(unquote(layer.layer_id))
             keep == ~Truthy(regex_filter) \/ re_match(regex_filter, layer_id)
         IN  IF layer_id \in seen
             THEN TraverseAlwaysDescending(rest, seen, layer_ids, layer_types, regex_filter, sublayers)
             ELSE TraverseAlwaysDescending(
                    rest \o layer.children,
                    seen \cup {layer_id},
                    IF keep THEN Append(layer_ids, layer_id) ELSE layer_ids,
                    IF keep THEN Append(layer_types, stringify_layer_type(layer.layer_type))
                            ELSE layer_types,
                    regex_filter, sublayers)

\* the loop with the `seen` test after the enqueue step
RECURSIVE TraverseEnqueueFirst(_, _, _, _, _, _)
TraverseEnqueueFirst(layers_to_process, seen, layer_ids, layer_types, regex_filter, sublayers) ==
    IF Len(layers_to_process) = 0
    THEN [layer_ids |-> layer_ids, layer_types |-> layer_types]
    ELSE LET layer == Head(layers_to_process)
             rest == Tail(layers_to_process)
             layer_id == posix(unquote(layer.layer_id))
             keep == ~Truthy(regex_filter) \/ re_match(regex_filter, layer_id)
             queue == IF sublayers THEN rest \o layer.children ELSE rest
         IN  IF layer_id \in seen
             THEN TraverseEnqueueFirst(queue, seen, layer_ids, layer_types, regex_filter, sublayers)
             ELSE TraverseEnqueueFirst(
                    queue,
                    seen \cup {layer_id},
                    IF keep THEN Append(layer_ids, layer_id) ELSE layer_ids,
                    IF keep THEN Append(layer_types, stringify_layer_type(layer.layer_type))
                            ELSE layer_types,
                    regex_filter, sublayers)

\* the `while layers_to_process:` loop
RECURSIVE Traverse(_, _, _, _, _, _)
Traverse(layers_to_process, seen, layer_ids, layer_types, regex_filter, sublayers) ==
    IF Len(layers_to_process) = 0
    THEN [layer_ids |-> layer_ids, layer_types |-> layer_types]
    ELSE LET layer == Head(layers_to_process)
             rest == Tail(layers_to_process)
             layer_id == posix(unquote(layer.layer_id))
             keep == ~Truthy(regex_filter) \/ re_match(regex_filter, layer_id)
         IN  IF layer_id \in seen
             THEN Traverse(rest, seen, layer_ids, layer_types, regex_filter, sublayers)
             ELSE Traverse(
                    IF sublayers THEN rest \o layer.children ELSE rest,
                    seen \cup {layer_id},
                    IF keep THEN Append(layer_ids, layer_id) ELSE layer_ids,
                    IF keep THEN Append(layer_types, stringify_layer_type(layer.layer_type))
                            ELSE layer_types,
                    regex_filter, sublayers)

GetLayersEnter(me, a, d) ==
    IF ~me.enable_this_node THEN Return(<<List(<<>>), List(<<>>), FALSE>>, d)
    ELSE LET params == [layer_types |-> StripAll(split(a.layer_types)),
                        layer_count |-> Arg(a, "layer_count", -1)]
             parent_layer_id == Arg(a, "parent_layer_id", PyNone)
         IN  IF Truthy(parent_layer_id)
             THEN Request(HttpGet(me.context, "stagecraft/layers/{}/sublayers",
                                  quote_plus(posix(parent_layer_id)), params), 1, d)
             ELSE Request(HttpGet(me.context, "stagecraft/layers", <<>>, params), 1, d)

\* the body with the two emptiness tests in the other order and the flag
\* left out of the second
GetLayersResumeQuiet(me, a, r, d) ==
    Checked(r, d,
        LET layers == Get(r.json, "layers", <<>>)
            crash_if_not_exist == Arg(a, "crash_if_not_exist", TRUE)
            out == Traverse(layers, {}, <<>>, <<>>,
                            Arg(a, "regex_filter", PyNone), Arg(a, "sublayers", TRUE))
        IN  IF Len(layers) = 0
            THEN Return(<<List(<<>>), List(<<>>), FALSE>>, d)
            ELSE Return(<<List(out.layer_ids), List(out.layer_types),
                          Len(out.layer_ids) > 0>>, d))

\* the body that tests the returned list, not the answered one, for
\* emptiness
GetLayersResumeStrict(me, a, r, d) ==
    Checked(r, d,
        LET layers == Get(r.json, "layers", <<>>)
            crash_if_not_exist == Arg(a, "crash_if_not_exist", TRUE)
            regex_filter == Arg(a, "regex_filter", PyNone)
            out == Traverse(layers, {}, <<>>, <<>>,
                            regex_filter, Arg(a, "sublayers", TRUE))
        IN  IF Len(layers) > 0 /\ Truthy(regex_filter) /\ ~re_compiles(regex_filter)
            THEN Raise("re.error", "missing ), unterminated subpattern", d)
            ELSE IF Len(out.layer_ids) = 0 /\ crash_if_not_exist
            THEN Raise("ValueError", "No layers found", d)
            ELSE IF Len(out.layer_ids) = 0 /\ ~crash_if_not_exist
            THEN Return(<<List(<<>>), List(<<>>), FALSE>>, d)
            ELSE Return(<<List(out.layer_ids), List(out.layer_types),
                          Len(out.layer_ids) > 0>>, d))

\* the first entry taken off the queue is never in `seen`, so with a
\* filter given re.match runs in the first iteration of the loop and an
\* invalid pattern leaves the body there with re.error
GetLayersResume(me, a, r, d) ==
    Checked(r, d,
        LET layers == Get(r.json, "layers", <<>>)
            crash_if_not_exist == Arg(a, "crash_if_not_exist", TRUE)
            regex_filter == Arg(a, "regex_filter", PyNone)
            out == Traverse(layers, {}, <<>>, <<>>,
                            regex_filter, Arg(a, "sublayers", TRUE))
        IN  IF Len(layers) = 0 /\ crash_if_not_exist
            THEN Raise("ValueError", "No layers found", d)
            ELSE IF Len(layers) = 0 /\ ~crash_if_not_exist
            THEN Return(<<List(<<>>), List(<<>>), FALSE>>, d)
            ELSE IF Truthy(regex_filter) /\ ~re_compiles(regex_filter)
            THEN Raise("re.error", "missing ), unterminated subpattern", d)
            ELSE Return(<<List(out.layer_ids), List(out.layer_types),
                          Len(out.layer_ids) > 0>>, d))

----------------------------------------------------------------------------
(* Layer nodes *)

CreateLayerEnter(me, a, d) ==
    IF ~me.enable_this_node THEN Return(<<EmptyStr>>, d)
    ELSE LET payload ==
                [layer_path |-> posix(a.layer_id),
                 layer_type |-> IF a.layer_type = NONE THEN PyNone ELSE a.layer_type,
                 set_edit_target |-> Arg(a, "set_edit_target", TRUE),
                 sublayer_position |-> a.sublayer_position,
                 parent_layer_id |-> posix(Arg(a, "parent_layer_id", PyNone)),
                 create_or_insert |-> Arg(a, "create_or_insert", TRUE),
                 replace_existing |-> Arg(a, "replace_existing", FALSE)]
         IN  Request(HttpSend("POST", me.context, "stagecraft/layers", <<>>, payload), 1, d)

CreateLayerResume(me, a, r, d) == Checked(r, d, Return(<<a.layer_id>>, d))

LayerTypeEnter(me, a, d) ==
    IF ~me.enable_this_node THEN Return(<<EmptyStr>>, d)
    ELSE Request(LayerTypesRequest(me.context), 1, d)

LayerTypeResume(me, a, r, d) ==
    validate_layer_types(<<a.layer_type>>, r, d, Return(<<a.layer_type>>, d))

LayerTypesEnter(me, a, d) ==
    IF ~me.enable_this_node THEN Return(<<EmptyStr>>, d)
    ELSE Request(LayerTypesRequest(me.context), 1, d)

LayerTypesResume(me, a, r, d) ==
    validate_layer_types(StripAll(split(a.layer_types)), r, d,
                         Return(<<a.layer_types>>, d))

MuteLayerEnter(me, a, d) ==
    IF ~me.enable_this_node THEN Return(<<EmptyStr>>, d)
    ELSE Request(HttpSend("PUT", me.context, "stagecraft/layers/{}/mute",
                          quote_plus(posix(a.layer_id)), [value |-> a.mute]), 1, d)

MuteLayerResume(me, a, r, d) == Checked(r, d, Return(<<a.layer_id>>, d))

RemoveLayerEnter(me, a, d) ==
    IF ~me.enable_this_node THEN Return(<<EmptyStr>>, d)
    ELSE Request(HttpSend("DELETE", me.context, "stagecraft/layers/{}",
                          quote_plus(posix(a.layer_id)),
                          [parent_layer_id |-> posix(a.parent_layer_id)]), 1, d)

RemoveLayerResume(me, a, r, d) == Checked(r, d, Return(<<a.layer_id>>, d))

SaveLayerEnter(me, a, d) ==
    IF ~me.enable_this_node THEN Return(<<EmptyStr>>, d)
    ELSE Request(HttpSend("POST", me.context, "stagecraft/layers/{}/save",
                          quote_plus(posix(a.layer_id)), <<>>), 1, d)

SaveLayerResume(me, a, r, d) == Checked(r, d, Return(<<a.layer_id>>, d))

GetEditTargetEnter(me, a, d) ==
    IF ~me.enable_this_node THEN Return(<<EmptyStr>>, d)
    ELSE Request(HttpGet(me.context, "stagecraft/layers/target", <<>>, <<>>), 1, d)

GetEditTargetResume(me, a, r, d) ==
    Checked(r, d,
        IF "layer_id" \in DOMAIN r.json
        THEN Return(<<unquote(r.json.layer_id)>>, d)
        ELSE Raise("TypeError", "unquote(None)", d))

SetEditTargetEnter(me, a, d) ==
    IF ~me.enable_this_node THEN Return(<<EmptyStr>>, d)
    ELSE Request(HttpSend("PUT", me.context, "stagecraft/layers/target/{}",
                          quote_plus(posix(a.layer_id)), <<>>), 1, d)

SetEditTargetResume(me, a, r, d) == Checked(r, d, Return(<<a.layer_id>>, d))

----------------------------------------------------------------------------
(* Texture nodes *)

RECURSIVE LastSlash(_, _)
LastSlash(path, i) ==
    IF i = 0 THEN 0 ELSE IF path[i] = "/" THEN i ELSE LastSlash(path, i - 1)

Suffixes == {".png", ".dds"}

\* pathlib.Path(path).stem: the last component without its suffix
Stem(path) ==
    LET name == SubSeq(path, LastSlash(path, Len(path)) + 1, Len(path))
    IN  IF Len(name) > 1 /\ name[Len(name)] \in Suffixes
        THEN SubSeq(name, 1, Len(name) - 1) ELSE name

\* the tensor loaded from an image file
LoadImage(texture_path) == [image_of |-> texture_path]

\* a loop that takes every record, on disk or not
LoadTexturesUnchecked(textures, d, result_attrs, texture_names, result_images) ==
    [attrs |-> [i \in 1..Len(textures) |-> textures[i][1]],
     names |-> [i \in 1..Len(textures) |-> Stem(textures[i][2])],
     images |-> [i \in 1..Len(textures) |-> LoadImage(textures[i][2])]]

\* `for usd_attr, texture_path in textures:` skipping the paths not on disk
RECURSIVE LoadTextures(_, _, _, _, _)
LoadTextures(textures, d, result_attrs, texture_names, result_images) ==
    IF Len(textures) = 0
    THEN [attrs |-> result_attrs, names |-> texture_names, images |-> result_images]
    ELSE LET usd_attr == Head(textures)[1]
             texture_path == Head(textures)[2]
         IN  IF texture_path \notin d
             THEN LoadTextures(Tail(textures), d, result_attrs, texture_names, result_images)
             ELSE LoadTextures(Tail(textures), d,
                               Append(result_attrs, usd_attr),
                               Append(texture_names, Stem(texture_path)),
                               Append(result_images, LoadImage(texture_path)))

GetTexturesEnter(me, a, d) ==
    IF ~me.enable_this_node THEN Return(<<List(<<>>), List(<<>>), List(<<>>)>>, d)
    ELSE LET base == [selection |-> a.return_selection,
                      filter_session_prims |-> a.filter_session_prims,
                      exists |-> Arg(a, "exists", TRUE)]
             h == IF Arg(a, "asset_hashes", PyNone) # PyNone
                  THEN [asset_hashes |-> StripAll(split(a.asset_hashes))] ELSE <<>>
             t == IF Arg(a, "texture_types", PyNone) # PyNone
                  THEN [texture_types |-> StripAll(split(a.texture_types))] ELSE <<>>
             l == IF Arg(a, "layer_id", PyNone) # PyNone
                  THEN [layer_identifier |-> posix(a.layer_id)] ELSE <<>>
         IN  Request(HttpGet(me.context, "stagecraft/textures", <<>>,
                             base @@ h @@ t @@ l), 1, d)

GetTexturesResume(me, a, r, d) ==
    Checked(r, d,
        LET textures == Get(r.json, "textures", <<>>)
            out == LoadTextures(textures, d, <<>>, <<>>, <<>>)
        IN  IF Len(textures) = 0
            THEN Raise("ValueError", "No textures found", d)
            ELSE IF Len(out.images) = 0
            THEN Raise("ValueError", "No textures found on disk", d)
            ELSE Return(<<List(out.attrs), List(out.names), List(out.images)>>, d))

TexturesTypesEnter(me, a, d) ==
    IF ~me.enable_this_node THEN Return(<<EmptyStr>>, d)
    ELSE Request(TextureTypesRequest(me.context), 1, d)

TexturesTypesResume(me, a, r, d) ==
    validate_texture_types(StripAll(split(a.texture_types)), r, d,
                           Return(<<a.texture_types>>, d))

TexturesTypeEnter(me, a, d) ==
    IF ~me.enable_this_node THEN Return(<<EmptyStr>>, d)
    ELSE Request(TextureTypesRequest(me.context), 1, d)

TexturesTypeResume(me, a, r, d) ==
    validate_texture_types(<<a.texture_type>>, r, d, Return(<<a.texture_type>>, d))

SetTextureEnter(me, a, d) ==
    IF ~me.enable_this_node THEN Return(<<>>, d)
    ELSE LET payload == [force |-> Arg(a, "force", FALSE),
                         textures |-> << <<a.usd_attribute, a.texture_path>> >>]
         IN  Request(HttpSend("PUT", me.context, "stagecraft/textures", <<>>, payload), 1, d)

SetTextureResume(me, a, r, d) == Checked(r, d, Return(<<>>, d))

TextureTypeToUSDAttributeEnter(me, a, d) ==
    IF ~me.enable_this_node THEN Return(<<EmptyStr>>, d)
    ELSE Request(HttpGet(me.context, "stagecraft/textures/{}/material/inputs",
                         a.usd_attribute, [texture_type |-> a.texture_type]), 1, d)

\* a lookup that hands back the last of the paths
TextureTypeToUSDAttributeResumeLast(me, a, r, d) ==
    Checked(r, d,
        LET result_texture_types == Get(r.json, "asset_paths", <<>>)
        IN  IF Len(result_texture_types) = 0
            THEN Raise("ValueError", "Can't get texture type", d)
            ELSE Return(<<result_texture_types[Len(result_texture_types)]>>, d))

TextureTypeToUSDAttributeResume(me, a, r, d) ==
    Checked(r, d,
        LET result_texture_types == Get(r.json, "asset_paths", <<>>)
        IN  IF Len(result_texture_types) = 0
            THEN Raise("ValueError", "Can't get texture type", d)
            ELSE Return(<<result_texture_types[1]>>, d))

----------------------------------------------------------------------------
(* File node *)

\* DeleteFile.execute: unlink() raises OSError for a path that is not there,
\* the body swallows it
DeleteFileEnter(me, a, d) ==
    IF ~me.enable_this_node THEN Return(<<FALSE>>, d)
    ELSE IF a.path \in d THEN Return(<<TRUE>>, d \ {a.path})
    ELSE Return(<<FALSE>>, d)

----------------------------------------------------------------------------
(* Texture ingestion: IngestTexture.ingest_texture (not context-wrapped:   *)
(* it takes address and port as plain inputs)                              *)

EmptyDict == <<"<dict>">>       \* the value {} where a str is expected

\* pathlib.Path(full_output_folder).joinpath(f"{filename}.png"), in the
\* host's output directory
TmpImagePath(texture_name) == <<"output", "/", texture_name, ".png">>

DefaultDirectoryRequest(a) ==
    HttpGet([address |-> a.address, port |-> a.port],
            "stagecraft/assets/default-directory", <<>>, <<>>)

\* from `if not os.path.exists(output_folder)` to the POST of the payload:
\* the temporary image is written before the request is sent
IngestSave(a, output_folder, d) ==
    IF output_folder = EmptyDict THEN Raise("TypeError", "os.path.exists({})", d)
    ELSE IF output_folder \notin d
    THEN Raise("ValueError", "Output folder doesn't exist", d)
    ELSE LET tmp_image_path == TmpImagePath(a.texture_name)
             payload == [input_files |-> << <<tmp_image_path, a.texture_type>> >>,
                         output_directory |-> output_folder]
         IN  Request(HttpSend("POST", [address |-> a.address, port |-> a.port],
                              "ingestcraft/mass-validator/queue/material", <<>>, payload),
                     2, d \cup {tmp_image_path})

IngestTextureEnter(me, a, d) ==
    IF a.enable_override_output_folder
    THEN IF a.override_output_folder \notin d
         THEN Raise("FileNotFoundError", "Can't overwrite output folder", d)
         ELSE IngestSave(a, a.override_output_folder, d)
    ELSE Request(DefaultDirectoryRequest(a), 1, d)

\* `if r.status_code != 200: raise ValueError(detail)`
IngestStatusError(r) == r.status # 200

\* `response_dict = json.loads(r.text)` and the raise that follows
IngestStatusRaise(r, d) ==
    IF ~IsJson(r.json) THEN Raise("JSONDecodeError", r.json, d)
    ELSE Raise("ValueError", Get(r.json, "detail", <<"Wrong request value">>), d)

\* the first data flow of the channel "ingestion_output"
RECURSIVE FirstOutput(_)
FirstOutput(data_flows) ==
    IF Len(data_flows) = 0 THEN PyNone
    ELSE IF Head(data_flows).channel # "ingestion_output" THEN FirstOutput(Tail(data_flows))
    ELSE Head(data_flows).output_data

\* the first check plugin named ConvertToDDS decides for its schema
RECURSIVE PluginOutput(_, _)
PluginOutput(check_plugins, results) ==
    IF Len(check_plugins) = 0 THEN results
    ELSE IF Head(check_plugins).name # "ConvertToDDS"
    THEN PluginOutput(Tail(check_plugins), results)
    ELSE LET out == FirstOutput(Head(check_plugins).data_flows)
         IN  IF out = PyNone THEN results ELSE out

\* `for completed_schema in completed_schemas:` until results is truthy
RECURSIVE SchemaOutput(_, _)
SchemaOutput(completed_schemas, results) ==
    IF Len(completed_schemas) = 0 THEN results
    ELSE LET out == PluginOutput(Head(completed_schemas).check_plugins, results)
         IN  IF out # PyNone /\ Len(out) > 0 THEN out
             ELSE SchemaOutput(Tail(completed_schemas), out)

IngestTextureResume(me, a, step, r, d) ==
    IF step = 1
    THEN IF IngestStatusError(r)
         THEN IngestStatusRaise(r, d)
         ELSE IngestSave(a, Get(r.json, "asset_path", EmptyDict), d)
    ELSE LET removed == d \ {TmpImagePath(a.texture_name)}
             results == SchemaOutput(Get(r.json, "completed_schemas", <<>>), PyNone)
         IN  IF IngestStatusError(r)
             THEN IngestStatusRaise(r, removed)
             ELSE IF results = PyNone \/ Len(results) = 0
             THEN Raise("ValueError", "Can't get the ingested texture", removed)
             ELSE IF results[1] \notin removed
             THEN Raise("FileNotFoundError", results[1], removed)
             ELSE Return(<<results[1]>>, removed)

----------------------------------------------------------------------------
(* Nodes that are not decorated with the context input *)

\* a start node that hands out the default endpoint whatever it is given
StartContextExecuteDefault(address, port) == <<[address |-> "127.0.0.1", port |-> 8011]>>

\* StartContext.execute
StartContextExecute(address, port) == <<[address |-> address, port |-> port]>>

\* EndContext.execute
EndContextExecute(context) == <<>>

\* RestAPIDetails.get_address
get_address(address, port) == <<address, port>>

\* pathlib.Path(p).parent for a relative path
Parent(p) ==
    LET q == AsPosix(p)
        cut == LastSlash(q, Len(q))
    IN  IF cut = 0 THEN <<".">> ELSE SubSeq(q, 1, cut - 1)

\* dir / name for relative paths
JoinPath(dir, name) == IF dir = <<".">> THEN AsPosix(name) ELSE AsPosix(dir \o <<"/">> \o name)

\* DefineLayerId.execute: pathlib.Path(None) raises TypeError
DefineLayerIdEnter(me, a, d) ==
    LET parent_layer_id == Arg(a, "parent_layer_id", PyNone)
        directories == Arg(a, "directories", PyNone)
    IN  IF parent_layer_id = PyNone THEN Raise("TypeError", "Path(None)", d)
        ELSE LET layer_id_dir == IF Truthy(directories)
                                 THEN JoinPath(Parent(parent_layer_id), directories)
                                 ELSE Parent(parent_layer_id)
             IN  Return(<<JoinPath(layer_id_dir, a.name)>>, d)

----------------------------------------------------------------------------
(* Node classes: declared outputs and execution function signatures *)

GatedNodes ==
    {"CreateLayer", "LayerType", "LayerTypes", "GetLayers", "MuteLayer",
     "RemoveLayer", "SaveLayer", "GetEditTarget", "SetEditTarget",
     "GetTextures", "TexturesType", "TexturesTypes", "SetTexture",
     "TextureTypeToUSDAttribute", "DeleteFile"}

\* RETURN_TYPES as the class body declares it (before decoration)
RETURN_TYPES(node) ==
    CASE node = "GetLayers" -> <<"STRING", "STRING", "BOOLEAN">>
      [] node = "GetTextures" -> <<"STRING", "STRING", "IMAGE">>
      [] node = "SetTexture" -> <<>>
      [] node = "DeleteFile" -> <<"BOOL">>
      [] node \in {"StartContext", "EndContext"} -> <<>>
      [] node = "RestAPIDetails" -> <<"STRING", "INT">>
      [] OTHER -> <<"STRING">>

\* OUTPUT_IS_LIST as the class body declares it; the host reads a class
\* without the attribute as all-scalar
OUTPUT_IS_LIST(node) ==
    CASE node = "GetLayers" -> <<TRUE, TRUE, FALSE>>
      [] node = "GetTextures" -> <<TRUE, TRUE, TRUE>>
      [] node = "SetTexture" -> <<>>
      [] OTHER -> <<FALSE>>

\* parameters of the execution function, `self` left out
Signature(node) ==
    CASE node = "CreateLayer" ->
            [required |-> {"layer_id", "layer_type", "sublayer_position"},
             optional |-> {"replace_existing", "set_edit_target",
                           "parent_layer_id", "create_or_insert"}]
      [] node = "LayerType" -> [required |-> {"layer_type"}, optional |-> {}]
      [] node = "LayerTypes" -> [required |-> {"layer_types"}, optional |-> {}]
      [] node = "GetLayers" ->
            [required |-> {"layer_types"},
             optional |-> {"layer_count", "sublayers", "crash_if_not_exist",
                           "parent_layer_id", "regex_filter"}]
      [] node = "MuteLayer" -> [required |-> {"layer_id", "mute"}, optional |-> {}]
      [] node = "RemoveLayer" ->
            [required |-> {"layer_id", "parent_layer_id"}, optional |-> {}]
      [] node = "SaveLayer" -> [required |-> {"layer_id"}, optional |-> {}]
      [] node = "GetEditTarget" -> [required |-> {"context"}, optional |-> {}]
      [] node = "SetEditTarget" -> [required |-> {"layer_id"}, optional |-> {}]
      [] node = "GetTextures" ->
            [required |-> {"return_selection", "filter_session_prims"},
             optional |-> {"asset_hashes", "texture_types", "layer_id", "exists"}]
      [] node = "TexturesTypes" -> [required |-> {"texture_types"}, optional |-> {}]
      [] node = "TexturesType" -> [required |-> {"texture_type"}, optional |-> {}]
      [] node = "SetTexture" ->
            [required |-> {"usd_attribute", "texture_path"}, optional |-> {"force"}]
      [] node = "TextureTypeToUSDAttribute" ->
            [required |-> {"usd_attribute", "texture_type"}, optional |-> {}]
      [] node = "DeleteFile" -> [required |-> {"path"}, optional |-> {}]
      [] node = "IngestTexture" ->
            [required |-> {"texture", "texture_type", "texture_name",
                           "enable_override_output_folder", "override_output_folder",
                           "address", "port"},
             optional |-> {}]
      [] node \in {"StartContext", "RestAPIDetails"} ->
            [required |-> {"address", "port"}, optional |-> {}]
      [] node = "EndContext" -> [required |-> {"context"}, optional |-> {}]
      [] node = "DefineLayerId" ->
            [required |-> {"name"}, optional |-> {"parent_layer_id", "directories"}]

\* Python binds the keyword arguments to the parameters: TypeError for a
\* missing required parameter or an unexpected keyword
Binds(node, args) ==
    /\ Signature(node).required \subseteq DOMAIN args
    /\ DOMAIN args \subseteq Signature(node).required \cup Signature(node).optional

\* the body from its first statement to its first request, return or raise
Enter(node, me, a, d) ==
    CASE node = "CreateLayer" -> CreateLayerEnter(me, a, d)
      [] node = "LayerType" -> LayerTypeEnter(me, a, d)
      [] node = "LayerTypes" -> LayerTypesEnter(me, a, d)
      [] node = "GetLayers" -> GetLayersEnter(me, a, d)
      [] node = "MuteLayer" -> MuteLayerEnter(me, a, d)
      [] node = "RemoveLayer" -> RemoveLayerEnter(me, a, d)
      [] node = "SaveLayer" -> SaveLayerEnter(me, a, d)
      [] node = "GetEditTarget" -> GetEditTargetEnter(me, a, d)
      [] node = "SetEditTarget" -> SetEditTargetEnter(me, a, d)
      [] node = "GetTextures" -> GetTexturesEnter(me, a, d)
      [] node = "TexturesTypes" -> TexturesTypesEnter(me, a, d)
      [] node = "TexturesType" -> TexturesTypeEnter(me, a, d)
      [] node = "SetTexture" -> SetTextureEnter(me, a, d)
      [] node = "TextureTypeToUSDAttribute" -> TextureTypeToUSDAttributeEnter(me, a, d)
      [] node = "DeleteFile" -> DeleteFileEnter(me, a, d)
      [] node = "IngestTexture" -> IngestTextureEnter(me, a, d)
      [] node = "StartContext" -> Return(StartContextExecute(a.address, a.port), d)
      [] node = "EndContext" -> Return(EndContextExecute(a.context), d)
      [] node = "RestAPIDetails" -> Return(get_address(a.address, a.port), d)
      [] node = "DefineLayerId" -> DefineLayerIdEnter(me, a, d)

\* the body from the answer r to request number `step` to its next
\* request, return or raise
Resume(node, me, a, step, r, d) ==
    CASE node = "CreateLayer" -> CreateLayerResume(me, a, r, d)
      [] node = "LayerType" -> LayerTypeResume(me, a, r, d)
      [] node = "LayerTypes" -> LayerTypesResume(me, a, r, d)
      [] node = "GetLayers" -> GetLayersResume(me, a, r, d)
      [] node = "MuteLayer" -> MuteLayerResume(me, a, r, d)
      [] node = "RemoveLayer" -> RemoveLayerResume(me, a, r, d)
      [] node = "SaveLayer" -> SaveLayerResume(me, a, r, d)
      [] node = "GetEditTarget" -> GetEditTargetResume(me, a, r, d)
      [] node = "SetEditTarget" -> SetEditTargetResume(me, a, r, d)
      [] node = "GetTextures" -> GetTexturesResume(me, a, r, d)
      [] node = "TexturesTypes" -> TexturesTypesResume(me, a, r, d)
      [] node = "TexturesType" -> TexturesTypeResume(me, a, r, d)
      [] node = "SetTexture" -> SetTextureResume(me, a, r, d)
      [] node = "TextureTypeToUSDAttribute" -> TextureTypeToUSDAttributeResume(me, a, r, d)
      [] node = "IngestTexture" -> IngestTextureResume(me, a, step, r, d)

----------------------------------------------------------------------------
(* Context and gating wrapper *)

Without(kw, name) == [k \in DOMAIN kw \ {name} |-> kw[k]]

SetAttr(me, name, value) ==
    [k \in DOMAIN me \cup {name} |-> IF k = name THEN value ELSE me[k]]

\* kwargs.pop("context", default): a missing context falls back to the
\* default endpoint instead of raising
PopContextOrDefault(kwargs) ==
    IF "context" \in DOMAIN kwargs
    THEN [raised |-> FALSE, value |-> kwargs.context, rest |-> Without(kwargs, "context")]
    ELSE [raised |-> FALSE, value |-> [address |-> "127.0.0.1", port |-> 8011],
          rest |-> kwargs]

\* kwargs.pop("context"): KeyError when the key is missing
PopContext(kwargs) ==
    IF "context" \in DOMAIN kwargs
    THEN [raised |-> FALSE, value |-> kwargs.context, rest |-> Without(kwargs, "context")]
    ELSE [raised |-> TRUE, value |-> PyNone, rest |-> kwargs]

\* the gate: the flag is taken out of the keyword arguments and stored on
\* the instance for the body to branch on
PopEnabled(me, kwargs) ==
    [me |-> SetAttr(me, "enable_this_node", kwargs.enabled),
     kwargs |-> Without(kwargs, "enabled")]

\* the context rebuilt from the default endpoint instead of passed through
ContextTupleRebuilt(me) == <<[address |-> "127.0.0.1", port |-> 8011]>>

\* `(instance.context,)`, evaluated before the body is called
ContextTuple(me) == <<me.context>>

\* wrapper(*args, **kwargs) up to the first request, return or raise of
\* the wrapped body
wrapper(node, me, kwargs, d) ==
    LET p == PopContext(kwargs)
    IN  IF p.raised
        THEN [me |-> me, args |-> kwargs, head |-> <<>>,
              eff |-> Raise("KeyError", "context", d)]
        ELSE LET e == PopEnabled(SetAttr(me, "context", p.value), p.rest)
             IN  [me |-> e.me, args |-> e.kwargs, head |-> ContextTuple(e.me),
                  eff |-> IF Binds(node, e.kwargs)
                          THEN Enter(node, e.me, e.kwargs, d)
                          ELSE Raise("TypeError", "arguments do not bind", d)]

\* calling the execution function of a class that is not decorated
plain(node, me, kwargs, d) ==
    [me |-> me, args |-> kwargs, head |-> <<>>,
     eff |-> IF Binds(node, kwargs)
             THEN Enter(node, me, kwargs, d)
             ELSE Raise("TypeError", "arguments do not bind", d)]

\* getattr(obj, obj.FUNCTION)(**kwargs)
Execute(node, me, kwargs, d) ==
    IF node \in GatedNodes THEN wrapper(node, me, kwargs, d) ELSE plain(node, me, kwargs, d)

\* `(instance.context,) + self.func(...)` once the body returned or raised
Finish(head, eff) ==
    IF eff.kind = "return"
    THEN [kind |-> "return", value |-> head \o eff.value]
    ELSE [kind |-> "raise", error |-> eff.error]

----------------------------------------------------------------------------
(* Node classes as objects: the schema a class body declares and what the  *)
(* class decorators make of it at import                                   *)

CONTEXT_TYPE == "RTX_REMIX_CONTEXT"

\* a dict keeps its keys in insertion order: items is a sequence of
\* <<key, value>>
Dict(items) == [dict |-> items]

\* isinstance(value, dict)
IsDict(value) == "dict" \in DOMAIN value

\* the tuple (type, {options}) that declares one input, the options
\* abbreviated to the one that tells the input apart
Input(type, options) == [type |-> type, options |-> options]

Keys(d) == [i \in 1..Len(d.dict) |-> d.dict[i][1]]

HasKey(d, key) == \E i \in 1..Len(d.dict) : d.dict[i][1] = key

Lookup(d, key) == d.dict[CHOOSE i \in 1..Len(d.dict) : d.dict[i][1] = key][2]

\* d[key] = value: an existing key keeps its place, a new key goes last
SetItem(d, key, value) ==
    IF HasKey(d, key)
    THEN Dict([i \in 1..Len(d.dict) |->
                IF d.dict[i][1] = key THEN <<key, value>> ELSE d.dict[i]])
    ELSE Dict(Append(d.dict, <<key, value>>))

\* merge_dict with the arguments of the call in wrap_input_types_with_context
\* the other way round
RECURSIVE merge_dict_into_source(_, _)
merge_dict_into_source(source, destination) ==
    IF Len(destination.dict) = 0 THEN source
    ELSE LET key == destination.dict[1][1]
             value == destination.dict[1][2]
             rest == Dict(Tail(destination.dict))
         IN  IF IsDict(value)
             THEN LET node == IF HasKey(source, key) THEN Lookup(source, key) ELSE Dict(<<>>)
                  IN  merge_dict_into_source(
                          SetItem(source, key, merge_dict_into_source(node, value)), rest)
             ELSE merge_dict_into_source(
                      IF HasKey(source, key) THEN source ELSE SetItem(source, key, value), rest)

RECURSIVE merge_dict(_, _)
merge_dict(source, destination) ==
    IF Len(source.dict) = 0 THEN destination
    ELSE LET key == source.dict[1][1]
             value == source.dict[1][2]
             rest == Dict(Tail(source.dict))
         IN  IF IsDict(value)
             THEN LET node == IF HasKey(destination, key)
                              THEN Lookup(destination, key) ELSE Dict(<<>>)
                  IN  merge_dict(rest, SetItem(destination, key, merge_dict(value, node)))
             ELSE merge_dict(rest, SetItem(destination, key, value))

get_context_inputs ==
    Dict(<< <<"required",
              Dict(<< <<"context", Input(CONTEXT_TYPE, "forceInput")>> >>)>> >>)

\* the inputs the gating decorator adds
get_context_inputs_enabled ==
    Dict(<< <<"required",
              Dict(<< <<"context", Input(CONTEXT_TYPE, "forceInput")>>,
                      <<"enabled", Input("BOOLEAN", "default=True")>> >>)>> >>)

\* the address and port inputs of a node that is given the endpoint itself
get_rest_api_inputs ==
    Dict(<< <<"required",
              Dict(<< <<"address", Input("STRING", "forceInput")>>,
                      <<"port", Input("INT", "forceInput")>> >>)>> >>)

wrap_input_types_with_context(func) == merge_dict(get_context_inputs, func)

wrap_input_types_with_context_enabled(func) == merge_dict(get_context_inputs_enabled, func)

\* _LayerOp.INPUT_TYPES()
LayerOpInputs ==
    Dict(<< <<"required", Dict(<< <<"layer_id", Input("STRING", "forceInput")>> >>)>> >>)

Section(name, inputs) == <<name, Dict(inputs)>>

\* cls.INPUT_TYPES() as the class body defines it
INPUT_TYPES(node) ==
    CASE node = "CreateLayer" ->
            Dict(<<Section("required",
                     << <<"layer_id", Input("STRING", "forceInput")>>,
                        <<"layer_type", Input("STRING", "forceInput")>>,
                        <<"replace_existing", Input("BOOLEAN", "default=False")>>,
                        <<"set_edit_target", Input("BOOLEAN", "default=True")>>,
                        <<"sublayer_position", Input("INT", "default=-1")>>,
                        <<"create_or_insert", Input("BOOLEAN", "default=True")>> >>),
                   Section("optional",
                     << <<"parent_layer_id", Input("STRING", "forceInput")>> >>)>>)
      [] node = "LayerType" ->
            Dict(<<Section("required", << <<"layer_type", Input("COMBO", "_layer_types")>> >>)>>)
      [] node = "LayerTypes" ->
            Dict(<<Section("required", << <<"layer_types", Input("STRING", "default")>> >>)>>)
      [] node = "GetLayers" ->
            Dict(<<Section("required",
                     << <<"layer_types", Input("STRING", "forceInput")>>,
                        <<"layer_count", Input("INT", "default=-1")>>,
                        <<"sublayers", Input("BOOLEAN", "default=True")>>,
                        <<"crash_if_not_exist", Input("BOOLEAN", "default=True")>> >>),
                   Section("optional",
                     << <<"parent_layer_id", Input("STRING", "forceInput")>>,
                        <<"regex_filter", Input("STRING", "forceInput")>> >>)>>)
      [] node = "MuteLayer" ->
            merge_dict(LayerOpInputs,
                       Dict(<<Section("required",
                                << <<"mute", Input("BOOLEAN", "default=True")>> >>)>>))
      [] node = "RemoveLayer" ->
            merge_dict(LayerOpInputs,
                       Dict(<<Section("required",
                                << <<"parent_layer_id", Input("STRING", "forceInput")>> >>)>>))
      [] node \in {"SaveLayer", "SetEditTarget"} -> LayerOpInputs
      [] node = "GetEditTarget" -> get_context_inputs
      [] node = "GetTextures" ->
            Dict(<<Section("required",
                     << <<"return_selection", Input("BOOLEAN", "default=False")>>,
                        <<"filter_session_prims", Input("BOOLEAN", "default=False")>> >>),
                   Section("optional",
                     << <<"asset_hashes", Input("STRING", "multiline")>>,
                        <<"texture_types", Input("STRING", "forceInput")>>,
                        <<"layer_id", Input("STRING", "forceInput")>>,
                        <<"exists", Input("BOOLEAN", "default=False")>> >>)>>)
      [] node = "TexturesTypes" ->
            Dict(<<Section("required", << <<"texture_types", Input("STRING", "default")>> >>)>>)
      [] node = "TexturesType" ->
            Dict(<<Section("required",
                     << <<"texture_type", Input("COMBO", "_texture_types")>> >>)>>)
      [] node = "SetTexture" ->
            Dict(<<Section("required",
                     << <<"usd_attribute", Input("STRING", "forceInput")>>,
                        <<"texture_path", Input("STRING", "forceInput")>> >>),
                   Section("optional", << <<"force", Input("BOOLEAN", "default=False")>> >>)>>)
      [] node = "TextureTypeToUSDAttribute" ->
            Dict(<<Section("required",
                     << <<"usd_attribute", Input("STRING", "forceInput")>>,
                        <<"texture_type", Input("STRING", "forceInput")>> >>)>>)
      [] node = "DeleteFile" ->
            Dict(<<Section("required", << <<"path", Input("STRING", "default")>> >>)>>)
      [] node = "StartContext" ->
            Dict(<<Section("required",
                     << <<"address", Input("STRING", "forceInput")>>,
                        <<"port", Input("INT", "forceInput")>> >>)>>)
      [] node = "EndContext" -> get_context_inputs
      [] node = "RestAPIDetails" ->
            Dict(<<Section("required",
                     << <<"address", Input("STRING", "default")>>,
                        <<"port", Input("INT", "default=8011")>> >>)>>)
      [] node = "DefineLayerId" ->
            Dict(<<Section("required",
                     << <<"name", Input("STRING", "forceInput")>>,
                        <<"parent_layer_id", Input("STRING", "forceInput")>> >>),
                   Section("optional",
                     << <<"directories", Input("STRING", "default=None")>> >>)>>)
      [] node = "IngestTexture" ->
            merge_dict(get_rest_api_inputs,
                Dict(<<Section("required",
                         << <<"texture", Input("IMAGE", "")>>,
                            <<"texture_type", Input("STRING", "forceInput")>>,
                            <<"texture_name", Input("STRING", "forceInput")>> >>),
                       Section("optional",
                         << <<"enable_override_output_folder", Input("BOOLEAN", "default=False")>>,
                            <<"override_output_folder", Input("STRING", "default")>> >>)>>))

RETURN_NAMES(node) ==
    CASE node = "CreateLayer" -> <<"layer_id">>
      [] node = "LayerType" -> <<"layer_type">>
      [] node = "LayerTypes" -> <<"layer_types">>
      [] node = "GetLayers" -> <<"layer_ids", "layer_types", "all_layer_type_exist">>
      [] node \in {"MuteLayer", "RemoveLayer", "SaveLayer", "SetEditTarget",
                   "GetEditTarget"} -> <<"layer_id">>
      [] node = "GetTextures" -> <<"usd_attributes", "texture_names", "textures">>
      [] node = "TexturesTypes" -> <<"texture_types">>
      [] node = "TexturesType" -> <<"texture_type">>
      [] node \in {"SetTexture", "StartContext", "EndContext"} -> <<>>
      [] node = "RestAPIDetails" -> <<"address", "port">>
      [] node = "DefineLayerId" -> <<"layer_id">>
      [] node = "IngestTexture" -> <<"texture_path">>
      [] node = "TextureTypeToUSDAttribute" -> <<"usd_attribute">>
      [] node = "DeleteFile" -> <<"File deleted">>

\* the classes whose body assigns OUTPUT_IS_LIST
DeclaresOutputIsList == {"CreateLayer", "GetLayers", "GetTextures", "DefineLayerId"}

\* the class object the class statement creates (inherited attributes
\* included), before any decorator ran
ClassBody(node) ==
    [INPUT_TYPES |-> INPUT_TYPES(node),
     FUNCTION |-> "body",
     attrs |-> [RETURN_TYPES |-> IF node = "StartContext" THEN <<>> ELSE RETURN_TYPES(node),
                RETURN_NAMES |-> RETURN_NAMES(node)]
               @@ (IF node \in DeclaresOutputIsList
                   THEN [OUTPUT_IS_LIST |-> OUTPUT_IS_LIST(node)] ELSE <<>>)]

\* getattr(cls, name, ())
getattr(cls, name) == IF name \in DOMAIN cls.attrs THEN cls.attrs[name] ELSE <<>>

\* the decorator with the context put after the declared outputs
add_context_outputs_last(cls) ==
    [cls EXCEPT !.attrs =
        (IF "OUTPUT_IS_LIST" \in DOMAIN cls.attrs
         THEN [OUTPUT_IS_LIST |-> getattr(cls, "OUTPUT_IS_LIST") \o <<FALSE>>]
         ELSE <<>>)
        @@ [RETURN_TYPES |-> getattr(cls, "RETURN_TYPES") \o <<CONTEXT_TYPE>>,
            RETURN_NAMES |-> getattr(cls, "RETURN_NAMES") \o <<"context">>]]

add_context_outputs(cls) ==
    [cls EXCEPT !.attrs =
        (IF "OUTPUT_IS_LIST" \in DOMAIN cls.attrs
         THEN [OUTPUT_IS_LIST |-> <<FALSE>> \o getattr(cls, "OUTPUT_IS_LIST")]
         ELSE <<>>)
        @@ [RETURN_TYPES |-> <<CONTEXT_TYPE>> \o getattr(cls, "RETURN_TYPES"),
            RETURN_NAMES |-> <<"context">> \o getattr(cls, "RETURN_NAMES")]]

add_context_input_and_output(cls) ==
    [add_context_outputs(cls) EXCEPT
        !.INPUT_TYPES = wrap_input_types_with_context(cls.INPUT_TYPES),
        !.FUNCTION = "ContextExecutionFuncWrapper"]

\* the decorator the node classes carry: context and gate
add_context_input_enabled_and_output(cls) ==
    [add_context_outputs(cls) EXCEPT
        !.INPUT_TYPES = wrap_input_types_with_context_enabled(cls.INPUT_TYPES),
        !.FUNCTION = "ContextEnabledExecutionFuncWrapper"]

\* the decorated classes in the order the package imports them
ImportOrder ==
    <<"StartContext", "DeleteFile", "CreateLayer", "LayerType", "LayerTypes", "GetLayers",
      "MuteLayer", "RemoveLayer", "SaveLayer", "GetEditTarget", "SetEditTarget",
      "GetTextures", "TexturesTypes", "TexturesType", "SetTexture",
      "TextureTypeToUSDAttribute">>

\* the registry once the package is imported
Imported ==
    [c \in Range(ImportOrder) |->
        IF c = "StartContext" THEN add_context_outputs(ClassBody(c))
        ELSE add_context_input_enabled_and_output(ClassBody(c))]

----------------------------------------------------------------------------
(* Invocations *)

Slots == 1..(ChainLen + 1)

Main == 1       \* the slot and the instance of the single-call host

IdleCall ==
    [node |-> "none", obj |-> 0, kwargs |-> <<>>, args |-> <<>>, head |-> <<>>,
     pc |-> "idle", step |-> 0, result |-> [kind |-> "none"]]

\* the body hands its outputs back as soon as the request is sent, without
\* waiting for the answer
AdvanceWithoutWaiting(call, eff) ==
    IF eff.kind = "request"
    THEN [call EXCEPT !.pc = "done",
                      !.result = [kind |-> "return", value |-> call.head \o <<call.args.layer_id>>]]
    ELSE [call EXCEPT !.pc = "done", !.result = Finish(call.head, eff)]

\* the call after a piece of the body ran with effect eff
Advance(call, eff) ==
    IF eff.kind = "request"
    THEN [call EXCEPT !.pc = "await", !.step = eff.step]
    ELSE [call EXCEPT !.pc = "done", !.result = Finish(call.head, eff)]

Log(log, s, eff) ==
    IF eff.kind = "request"
    THEN Append(log, [slot |-> s, event |-> "request", req |-> eff.req])
    ELSE log

\* The host calls the execution function of instance o with kwargs.
Invoke(s, o, node, kwargs) ==
    /\ calls[s].pc = "idle"
    /\ LET w == Execute(node, self[o], kwargs, disk)
           call == [IdleCall EXCEPT !.node = node, !.obj = o, !.kwargs = kwargs,
                                    !.args = w.args, !.head = w.head]
       IN  /\ calls' = [calls EXCEPT ![s] = Advance(call, w.eff)]
           /\ self' = [self EXCEPT ![o] = w.me]
           /\ http' = Log(http, s, w.eff)
           /\ disk' = w.eff.disk
    /\ UNCHANGED classes

\* The remote service answers the pending request of slot s with r.
Respond(s, r) ==
    /\ calls[s].pc = "await"
    /\ LET call == calls[s]
           eff == Resume(call.node, self[call.obj], call.args, call.step, r, disk)
           answered == Append(http, [slot |-> s, event |-> "response",
                                   status |-> r.status, json |-> r.json])
       IN  /\ calls' = [calls EXCEPT ![s] = Advance(call, eff)]
           /\ http' = Log(answered, s, eff)
           /\ disk' = eff.disk
    /\ UNCHANGED <<self, classes>>

\* a requests call that raises (connection refused, timeout): no body
\* catches it, so it leaves the body at the line of the request
Propagate(node, step, d) == Raise("ConnectionError", "transport", d)

\* The pending request of slot s fails at the transport level.
TransportError(s) ==
    /\ calls[s].pc = "await"
    /\ LET call == calls[s]
           eff == Propagate(call.node, call.step, disk)
       IN  /\ calls' = [calls EXCEPT ![s] = Advance(call, eff)]
           /\ http' = Append(http, [slot |-> s, event |-> "failed"])
           /\ disk' = eff.disk
    /\ UNCHANGED <<self, classes>>

\* The host takes the outcome of slot s; the instance keeps its attributes
\* for the next evaluation, whose log starts empty.
Forget(s) ==
    /\ calls[s].pc = "done"
    /\ calls' = [calls EXCEPT ![s] = IdleCall]
    /\ http' = <<>>
    /\ UNCHANGED <<self, disk, classes>>

----------------------------------------------------------------------------
(* The single-call host: one node at a time, every gated node, small inputs *)

Contexts ==
    {[address |-> "127.0.0.1", port |-> 8011], [address |-> "10.0.0.2", port |-> 8012]}

Layer(layer_id, layer_type, children) ==
    [layer_id |-> layer_id, layer_type |-> layer_type, children |-> children]

File1 == <<"tex", "/", "t1", ".png">>
File2 == <<"tex", "/", "t2", ".png">>

LayerIdInputs == {<<"p", "/", "a b">>, <<"p", "/", "/", "m", "/">>}

BasicInputs(node) ==
    CASE node = "CreateLayer" ->
            {[layer_id |-> l, layer_type |-> t, replace_existing |-> FALSE,
              set_edit_target |-> TRUE, sublayer_position |-> -1,
              create_or_insert |-> TRUE] :
                l \in LayerIdInputs, t \in {NONE, <<"workfile">>}}
      [] node = "LayerType" -> {[layer_type |-> t] : t \in {NONE, <<"workfile">>}}
      [] node = "LayerTypes" ->
            {[layer_types |-> t] : t \in {<<"workfile", ",", " ", "capture">>}}
      [] node = "GetLayers" ->
            {[layer_types |-> <<"workfile">>, layer_count |-> -1,
              sublayers |-> sl, crash_if_not_exist |-> cr] : sl, cr \in BOOLEAN}
      [] node = "MuteLayer" ->
            {[layer_id |-> l, mute |-> TRUE] : l \in LayerIdInputs}
      [] node = "RemoveLayer" ->
            {[layer_id |-> l, parent_layer_id |-> <<"p">>] : l \in LayerIdInputs}
      [] node \in {"SaveLayer", "SetEditTarget"} ->
            {[layer_id |-> l] : l \in LayerIdInputs}
      [] node = "GetEditTarget" -> {<<>>}
      [] node = "GetTextures" ->
            {[return_selection |-> FALSE, filter_session_prims |-> FALSE,
              asset_hashes |-> <<>>, exists |-> FALSE]}
      [] node = "TexturesTypes" ->
            {[texture_types |-> t] : t \in {<<"DIFFUSE", ",", "METALLIC">>}}
      [] node = "TexturesType" ->
            {[texture_type |-> t] : t \in {<<"DIFFUSE">>, <<"METALLIC">>}}
      [] node = "SetTexture" ->
            {[usd_attribute |-> <<"attr">>, texture_path |-> File1, force |-> FALSE]}
      [] node = "TextureTypeToUSDAttribute" ->
            {[usd_attribute |-> <<"attr">>, texture_type |-> <<"DIFFUSE">>]}
      [] node = "DeleteFile" -> {[path |-> File1]}

\* what the host passes: the declared inputs, the gate, and (unless the
\* graph is malformed) the context
HostKwargs(node) ==
    {c @@ [enabled |-> e] @@ i :
        c \in {[context |-> x] : x \in Contexts} \cup {<<>>},
        e \in BOOLEAN,
        i \in BasicInputs(node)}

Ok(json) == [status |-> 200, json |-> json]

NotFound == [status |-> 404, json |-> [detail |-> <<"not found">>]]

BasicResponses(node) ==
    CASE node \in {"LayerType", "LayerTypes"} ->
            {NotFound, Ok([layer_types |-> << <<"workfile">>, <<"capture">> >>]),
             Ok([layer_types |-> << <<"capture">> >>])}
      [] node \in {"TexturesType", "TexturesTypes"} ->
            {NotFound, Ok([texture_types |-> << <<"DIFFUSE">>, <<"NORMAL_OGL">> >>]),
             Ok([texture_types |-> << <<"DIFFUSE">>, <<"METALLIC">> >>])}
      [] node = "GetLayers" ->
            {NotFound, Ok([layers |-> <<>>]),
             Ok([layers |-> <<Layer(<<"p", "%2F", "a">>, PyNone,
                                    <<Layer(<<"p", "/", "b">>, <<"workfile">>, <<>>)>>)>>])}
      [] node = "GetEditTarget" ->
            {NotFound, Ok([layer_id |-> <<"p", "%2F", "a">>])}
      [] node = "GetTextures" ->
            {NotFound, Ok([textures |-> <<>>]),
             Ok([textures |-> << <<<<"attr1">>, File1>>, <<<<"attr2">>, File2>> >>])}
      [] node = "TextureTypeToUSDAttribute" ->
            {NotFound, Ok([asset_paths |-> <<>>]),
             Ok([asset_paths |-> << <<"attr1">>, <<"attr2">> >>])}
      [] node \in {"CreateLayer", "MuteLayer", "RemoveLayer", "SaveLayer",
                   "SetEditTarget", "SetTexture"} ->
            {NotFound, Ok(<<>>)}
      [] OTHER -> {}

Init ==
    /\ calls = [s \in Slots |-> IdleCall]
    /\ self = [s \in Slots |-> <<>>]
    /\ http = <<>>
    /\ disk \in SUBSET {File1, File2}
    /\ classes = Imported

HostInvoke == \E node \in GatedNodes : \E kw \in HostKwargs(node) : Invoke(Main, Main, node, kw)

ServiceRespond == \E r \in BasicResponses(calls[Main].node) : Respond(Main, r)

ServiceUnreachable == TransportError(Main)

HostForget == Forget(Main)

Next == HostInvoke \/ ServiceRespond \/ ServiceUnreachable \/ HostForget

Spec == Init /\ [][Next]_vars

----------------------------------------------------------------------------
(* Claims about one invocation of a wrapped node *)

HasContext(kwargs) == "context" \in DOMAIN kwargs

Started(s) == calls[s].pc = "idle" /\ calls'[s].pc # "idle"

Neutral(type, is_list) ==
    IF is_list THEN List(<<>>)
    ELSE IF type \in {"BOOLEAN", "BOOL"} THEN FALSE
    ELSE EmptyStr

NeutralOutputs(node) ==
    [i \in 1..Len(RETURN_TYPES(node)) |->
        Neutral(RETURN_TYPES(node)[i], OUTPUT_IS_LIST(node)[i])]

DisabledIsInert(s) ==
    /\ http' = http
    /\ disk' = disk
    /\ calls'[s].pc = "done"
    /\ calls'[s].result.kind = "return"
    /\ Tail(calls'[s].result.value) = NeutralOutputs(calls'[s].node)

\* C1: an invocation of a gated node with the gate disabled issues no HTTP
\* request, changes nothing on disk, and returns the declared number of
\* outputs, each holding its neutral value.
C1_DisabledNodeIsInert ==
    [][\A s \in Slots :
        (Started(s) /\ calls'[s].node \in GatedNodes
            /\ HasContext(calls'[s].kwargs) /\ ~calls'[s].kwargs.enabled)
        => DisabledIsInert(s)]_vars

\* the same for every gated node but GetEditTarget
C1_DisabledNodeIsInertButGetEditTarget ==
    [][\A s \in Slots :
        (Started(s) /\ calls'[s].node \in GatedNodes \ {"GetEditTarget"}
            /\ HasContext(calls'[s].kwargs) /\ ~calls'[s].kwargs.enabled)
        => DisabledIsInert(s)]_vars

\* C2: a wrapped invocation that returns normally returns, as its first
\* element, the context it was given.
C2_ContextPassThrough ==
    \A s \in Slots :
        (calls[s].pc = "done" /\ calls[s].node \in GatedNodes
            /\ calls[s].result.kind = "return")
        => /\ HasContext(calls[s].kwargs)
           /\ Len(calls[s].result.value) >= 1
           /\ calls[s].result.value[1] = calls[s].kwargs.context

C2_Witness ==
    \E s \in Slots :
        /\ calls[s].pc = "done" /\ calls[s].result.kind = "return"
        /\ calls[s].kwargs.enabled
        /\ calls[s].kwargs.context.port = 8012
        /\ \E i \in 1..Len(http) : http[i].slot = s /\ http[i].event = "response"

\* C5: a wrapped invocation without a `context` keyword fails with a
\* missing-argument error before the body runs: no request, no change on
\* disk or on the instance, no result tuple.
C5_MissingContextFails ==
    [][\A s \in Slots :
        (Started(s) /\ calls'[s].node \in GatedNodes /\ ~HasContext(calls'[s].kwargs))
        => /\ calls'[s].pc = "done"
           /\ calls'[s].result.kind = "raise"
           /\ calls'[s].result.error.type = "KeyError"
           /\ http' = http /\ disk' = disk /\ self' = self]_vars

C5_Witness ==
    \E s \in Slots :
        /\ calls[s].pc = "done" /\ ~HasContext(calls[s].kwargs)
        /\ calls[s].node = "DeleteFile" /\ calls[s].kwargs.enabled
        /\ calls[s].kwargs.path \in disk

----------------------------------------------------------------------------
(* The graph host: a chain of context-threading nodes 1 -> 2 -> ... ->     *)
(* ChainLen, each taking its context from the context output of the one    *)
(* before, and one more node with no data path to the chain.  The host     *)
(* runs a node once every node feeding its inputs has returned; it may     *)
(* have several nodes in flight.                                           *)

Chain == 1..ChainLen

Independent == ChainLen + 1

ChainNodes == {"SaveLayer", "SetEditTarget"}

\* the context edge into node n: a StartContext output for the head of the
\* chain and for the independent node, the context output of n - 1 otherwise
ContextEdge(n) ==
    IF n \in {1, Independent}
    THEN {StartContextExecute(c.address, c.port)[1] : c \in Contexts}
    ELSE {calls[n - 1].result.value[1]}

Fed(n) ==
    IF n \in {1, Independent} THEN TRUE
    ELSE calls[n - 1].pc = "done" /\ calls[n - 1].result.kind = "return"

GraphRun(n) ==
    /\ Fed(n)
    /\ \E node \in ChainNodes, e \in BOOLEAN, c \in ContextEdge(n) :
          Invoke(n, n, node, [context |-> c, enabled |-> e, layer_id |-> <<"p", "/", "m">>])

GraphRespond(n) == \E r \in BasicResponses(calls[n].node) : Respond(n, r)

GraphUnreachable(n) == TransportError(n)

NextGraph == \E n \in Slots : GraphRun(n) \/ GraphRespond(n) \/ GraphUnreachable(n)

InitGraph ==
    /\ calls = [s \in Slots |-> IdleCall]
    /\ self = [s \in Slots |-> <<>>]
    /\ http = <<>>
    /\ disk = {}
    /\ classes = Imported

SpecGraph == InitGraph /\ [][NextGraph]_vars

IsRequest(i, n) == http[i].slot = n /\ http[i].event = "request"

IsCompletion(i, n) == http[i].slot = n /\ http[i].event \in {"response", "failed"}

\* C3: along the chain the requests are issued in chain order: when a
\* request of node j is issued, every request of every earlier node of the
\* chain was issued before it and has completed before it.
C3_ChainOrder ==
    \A i, j \in Chain : \A a, b \in 1..Len(http) :
        (i < j /\ IsRequest(a, i) /\ IsRequest(b, j))
        => /\ a < b
           /\ \E c \in (a + 1)..(b - 1) : IsCompletion(c, i)

\* the whole chain has issued its requests, and the independent node
\* issued its request between two of them
C3_Witness ==
    /\ \A n \in Chain : \E a \in 1..Len(http) : IsRequest(a, n)
    /\ \E a, b, c \in 1..Len(http) :
          a < b /\ b < c /\ IsRequest(a, 1) /\ IsRequest(b, Independent) /\ IsRequest(c, ChainLen)

\* no ordering for the independent node: it can be first and it can be last
C3_IndependentFirst ==
    \E a, b \in 1..Len(http) : a < b /\ IsRequest(a, Independent) /\ IsRequest(b, 1)

C3_IndependentLast ==
    \E a, b \in 1..Len(http) : a < b /\ IsCompletion(a, ChainLen) /\ IsRequest(b, Independent)

----------------------------------------------------------------------------
(* The ingestion host: IngestTexture, one call at a time *)

DefaultDir == <<"assets">>
OverrideDir == <<"override">>
Ingested == <<"assets", "/", "t1", ".dds">>

IngestKwargs ==
    {[texture |-> "image", texture_type |-> <<"DIFFUSE">>, texture_name |-> "t1",
      enable_override_output_folder |-> o, override_output_folder |-> OverrideDir,
      address |-> c.address, port |-> c.port] : o \in BOOLEAN, c \in Contexts}

DataFlow(channel, output_data) == [channel |-> channel, output_data |-> output_data]

Plugin(name, data_flows) == [name |-> name, data_flows |-> data_flows]

Schema(check_plugins) == [check_plugins |-> check_plugins]

IngestResponses(step) ==
    IF step = 1
    THEN {NotFound, Ok([asset_path |-> DefaultDir]), Ok(<<>>),
          [status |-> 204, json |-> [asset_path |-> DefaultDir]]}
    ELSE {NotFound,
          [status |-> 500, json |-> <<>>],
          Ok(<<>>),
          Ok([completed_schemas |->
                <<Schema(<<Plugin("Other", <<>>),
                           Plugin("ConvertToDDS",
                                  <<DataFlow("log", <<"x">>),
                                    DataFlow("ingestion_output", <<Ingested>>)>>)>>)>>]),
          Ok([completed_schemas |->
                <<Schema(<<Plugin("ConvertToDDS", <<DataFlow("ingestion_output", <<>>)>>)>>),
                  Schema(<<Plugin("ConvertToDDS",
                                  <<DataFlow("ingestion_output", <<Ingested>>)>>)>>)>>])}

InitIngest ==
    /\ calls = [s \in Slots |-> IdleCall]
    /\ self = [s \in Slots |-> <<>>]
    /\ http = <<>>
    /\ disk \in SUBSET {DefaultDir, OverrideDir, Ingested}
    /\ classes = Imported

IngestInvoke == \E kw \in IngestKwargs : Invoke(Main, Main, "IngestTexture", kw)

IngestRespond == \E r \in IngestResponses(calls[Main].step) : Respond(Main, r)

IngestUnreachable == TransportError(Main)

IngestForget == Forget(Main)

NextIngest == IngestInvoke \/ IngestRespond \/ IngestUnreachable \/ IngestForget

SpecIngest == InitIngest /\ [][NextIngest]_vars

IngestPosted(s) ==
    \E i \in 1..Len(http) :
        IsRequest(i, s) /\ http[i].req.endpoint = "ingestcraft/mass-validator/queue/material"

TransportFailed(s) ==
    IF calls[s].result.kind = "raise"
    THEN calls[s].result.error.type = "ConnectionError" ELSE FALSE

\* C4: once the temporary image was written (the ingest request was sent),
\* the file is gone when the invocation has ended, whatever the outcome.
C4_TempFileRemoved ==
    \A s \in Slots :
        (calls[s].node = "IngestTexture" /\ calls[s].pc = "done" /\ IngestPosted(s))
        => TmpImagePath(calls[s].kwargs.texture_name) \notin disk

\* the same for the outcomes in which the ingest request was answered
C4_TempFileRemovedWhenAnswered ==
    \A s \in Slots :
        (calls[s].node = "IngestTexture" /\ calls[s].pc = "done" /\ IngestPosted(s)
            /\ ~TransportFailed(s))
        => TmpImagePath(calls[s].kwargs.texture_name) \notin disk

----------------------------------------------------------------------------
(* The layer-listing host: GetLayers against every layer forest of up to   *)
(* MaxLayers entries the service can answer with                           *)

\* layer_id strings as the service sends them; "p/a" comes in two
\* spellings, one of them percent-encoded with a trailing separator
RawPaths ==
    {<<"p", "/", "a">>, <<"p", "%2F", "a", "/">>, <<"p", "/", "b">>, <<"q">>}

\* the layer_type of the i-th entry of an answer (null for some)
TypeAt(i) == IF i % 3 = 1 THEN PyNone ELSE _layer_types[((i - 1) % 5) + 1]

\* parent[i] < i is the entry under which entry i is listed, 0 for a root;
\* the entries are numbered level by level, so parent is non-decreasing
RECURSIVE Parents(_)
Parents(n) ==
    IF n = 0 THEN {<<>>}
    ELSE UNION {{Append(p, k) : k \in (IF n = 1 THEN 0 ELSE p[n - 1])..(n - 1)} :
                    p \in Parents(n - 1)}

RECURSIVE IndicesUnder(_, _, _)
IndicesUnder(parent, k, i) ==
    IF i > Len(parent) THEN <<>>
    ELSE (IF parent[i] = k THEN <<i>> ELSE <<>>) \o IndicesUnder(parent, k, i + 1)

\* the JSON entries listed under entry k (the roots for k = 0)
RECURSIVE EntriesUnder(_, _, _)
EntriesUnder(parent, path, k) ==
    LET idx == IndicesUnder(parent, k, 1)
    IN  [j \in 1..Len(idx) |->
            Layer(path[idx[j]], TypeAt(idx[j]), EntriesUnder(parent, path, idx[j]))]

\* every forest of n entries: a parent array and a path for each entry
Forest(parent, path) == EntriesUnder(parent, path, 0)

LayerQueries ==
    {[layer_types |-> <<"workfile">>, sublayers |-> sl, crash_if_not_exist |-> cr] @@ rx :
        sl \in BOOLEAN, cr \in BOOLEAN,
        rx \in {<<>>, [regex_filter |-> <<"p", "/">>]}}

AContext == [address |-> "127.0.0.1", port |-> 8011]

InitLayers ==
    /\ calls = [s \in Slots |-> IdleCall]
    /\ self = [s \in Slots |-> <<>>]
    /\ http = <<>>
    /\ disk = {}
    /\ classes = Imported

LayersInvoke ==
    \E q \in LayerQueries :
        Invoke(Main, Main, "GetLayers", [context |-> AContext, enabled |-> TRUE] @@ q)

LayersRespond ==
    \/ \E r \in {NotFound, Ok(<<>>)} : Respond(Main, r)
    \/ /\ calls[Main].pc = "await"
       /\ \E n \in 0..MaxLayers : \E parent \in Parents(n) : \E path \in [1..n -> RawPaths] :
               Respond(Main, Ok([layers |-> Forest(parent, path)]))

LayersUnreachable == TransportError(Main)

LayersForget == Forget(Main)

NextLayers == LayersInvoke \/ LayersRespond \/ LayersUnreachable \/ LayersForget

SpecLayers == InitLayers /\ [][NextLayers]_vars

----------------------------------------------------------------------------
(* Claims about the layer listing *)

\* the listing of the single-call host was answered with a status that
\* check_response_status_code lets pass
Listed ==
    /\ calls[Main].node = "GetLayers" /\ calls[Main].pc = "done"
    /\ Len(http) = 2 /\ http[2].event = "response" /\ http[2].status = 200

\* ... and the body returned
ListedOk == Listed /\ calls[Main].result.kind = "return"

\* the top-level list of the answer, [] when the key is missing
AnsweredLayers == Get(http[2].json, "layers", <<>>)

ReturnedIds == calls[Main].result.value[2].list

ReturnedTypes == calls[Main].result.value[3].list

\* the normalized (URL-unquoted, POSIX) path of an entry
NormPath(entry) == posix(unquote(entry.layer_id))

PathsOf(entries) == [i \in 1..Len(entries) |-> NormPath(entries[i])]

\* the filter of the query: every path passes when none is given
Passes(q, path) ==
    IF "regex_filter" \in DOMAIN q THEN IsPrefix(q.regex_filter, path) ELSE TRUE

RECURSIVE Passing(_, _)
Passing(q, entries) ==
    IF Len(entries) = 0 THEN <<>>
    ELSE (IF Passes(q, NormPath(Head(entries))) THEN <<Head(entries)>> ELSE <<>>)
            \o Passing(q, Tail(entries))

\* the children lists of a level, one after the other
RECURSIVE ChildrenOf(_)
ChildrenOf(level) ==
    IF Len(level) = 0 THEN <<>>
    ELSE Head(level).children \o ChildrenOf(Tail(level))

\* every entry of the tree, level by level
RECURSIVE LevelOrder(_)
LevelOrder(level) ==
    IF Len(level) = 0 THEN <<>> ELSE level \o LevelOrder(ChildrenOf(level))

\* the entries whose path occurs neither in seen nor earlier in the sequence
RECURSIVE FirstOccurrences(_, _)
FirstOccurrences(entries, seen) ==
    IF Len(entries) = 0 THEN <<>>
    ELSE IF NormPath(Head(entries)) \in seen
    THEN FirstOccurrences(Tail(entries), seen)
    ELSE <<Head(entries)>>
            \o FirstOccurrences(Tail(entries), seen \cup {NormPath(Head(entries))})

\* the entries the traversal visits, level by level: of each level the
\* first occurrences, and as next level the children of those only
RECURSIVE Visited(_, _)
Visited(level, seen) ==
    IF Len(level) = 0 THEN <<>>
    ELSE LET fresh == FirstOccurrences(level, seen)
         IN  fresh \o Visited(ChildrenOf(fresh), seen \cup Range(PathsOf(fresh)))

NoRepeats(seq) == \A i, j \in 1..Len(seq) : seq[i] = seq[j] => i = j

\* C6 as stated: with sublayers on, the returned layer_ids are the unique
\* normalized paths of the whole tree that pass the filter, each once, in
\* level order, the first occurrence in the tree deciding the position.
C6_EveryUniquePathOnce ==
    (ListedOk /\ calls[Main].kwargs.sublayers)
    => ReturnedIds =
        PathsOf(Passing(calls[Main].kwargs,
                        FirstOccurrences(LevelOrder(AnsweredLayers), {})))

\* C6: with sublayers on, the returned layer_ids are the normalized paths
\* that pass the filter of the entries the traversal visits (the roots and
\* the children of visited entries, an entry whose path was seen before
\* being skipped together with everything below it), each path once, in
\* level order, the first visited occurrence deciding the position.
C6_EveryVisitedPathOnce ==
    (ListedOk /\ calls[Main].kwargs.sublayers)
    => /\ ReturnedIds =
            PathsOf(Passing(calls[Main].kwargs, Visited(AnsweredLayers, {})))
       /\ NoRepeats(ReturnedIds)

\* a tree in which "p/a" is listed under two parents in two spellings and
\* a level is returned after the one above it
C6_Witness ==
    /\ ListedOk /\ calls[Main].kwargs.sublayers
    /\ "regex_filter" \notin DOMAIN calls[Main].kwargs
    /\ Len(AnsweredLayers) = 2
    /\ PathsOf(AnsweredLayers) = << <<"q">>, <<"p", "/", "b">> >>
    /\ Len(AnsweredLayers[1].children) = 1
    /\ Len(AnsweredLayers[2].children) = 1
    /\ AnsweredLayers[1].children[1].layer_id = <<"p", "%2F", "a", "/">>
    /\ AnsweredLayers[2].children[1].layer_id = <<"p", "/", "a">>
    /\ ReturnedIds = << <<"q">>, <<"p", "/", "b">>, <<"p", "/", "a">> >>

C8_NoDescent ==
    (ListedOk /\ ~calls[Main].kwargs.sublayers)
    => /\ ReturnedIds =
            PathsOf(Passing(calls[Main].kwargs, FirstOccurrences(AnsweredLayers, {})))
       /\ Len(ReturnedTypes) = Len(ReturnedIds)

\* a tree three levels deep whose lower levels carry paths the top level
\* does not
C8_Witness ==
    /\ ListedOk /\ ~calls[Main].kwargs.sublayers
    /\ Len(AnsweredLayers) = 2
    /\ PathsOf(AnsweredLayers) = << <<"p", "/", "a">>, <<"p", "/", "a">> >>
    /\ Len(AnsweredLayers[1].children) = 1
    /\ NormPath(AnsweredLayers[1].children[1]) = <<"q">>
    /\ Len(AnsweredLayers[1].children[1].children) = 1
    /\ NormPath(AnsweredLayers[1].children[1].children[1]) = <<"p", "/", "b">>
    /\ ReturnedIds = << <<"p", "/", "a">> >>

\* C9: when the answer carries no layers, the listing fails with a
\* ValueError and returns nothing if crash_if_not_exist is set, and returns
\* ([], [], false) after the context otherwise.
C9_EmptyListing ==
    (Listed /\ Len(AnsweredLayers) = 0)
    => IF calls[Main].kwargs.crash_if_not_exist
       THEN /\ calls[Main].result.kind = "raise"
            /\ calls[Main].result.error.type = "ValueError"
       ELSE /\ calls[Main].result.kind = "return"
            /\ calls[Main].result.value =
                <<calls[Main].kwargs.context, List(<<>>), List(<<>>), FALSE>>

C9_Witness ==
    /\ Listed /\ http[2].json = [layers |-> <<>>]
    /\ calls[Main].kwargs.crash_if_not_exist
    /\ calls[Main].result.kind = "raise"

\* the other branch: nothing listed and no failure asked for
C9_WitnessQuiet ==
    /\ Listed /\ Len(AnsweredLayers) = 0
    /\ ~calls[Main].kwargs.crash_if_not_exist
    /\ calls[Main].result.kind = "return"

----------------------------------------------------------------------------
(* The type-validation host: the four type nodes, every type string of up  *)
(* to MaxTypeChars tokens, every list of types the service can answer with *)

TypeNodes == {"LayerType", "LayerTypes", "TexturesType", "TexturesTypes"}

LayerTypeNodes == {"LayerType", "LayerTypes"}

\* the name of the type input of a type node
TypeInput(node) ==
    CASE node = "LayerType" -> "layer_type"
      [] node = "LayerTypes" -> "layer_types"
      [] node = "TexturesType" -> "texture_type"
      [] node = "TexturesTypes" -> "texture_types"

\* the key of the answer that carries the list of valid types
TypesKey(node) == IF node \in LayerTypeNodes THEN "layer_types" ELSE "texture_types"

Strings(alphabet, n) == UNION {[1..k -> alphabet] : k \in 0..n}

\* the single-type nodes take one entry of their combo list, the others
\* a free string
TypeStrings(node) ==
    CASE node = "LayerType" -> Range(_layer_types)
      [] node = "TexturesType" -> Range(_texture_types)
      [] node = "LayerTypes" ->
            Strings({"workfile", "replacement", "None", ",", " "}, MaxTypeChars)
      [] node = "TexturesTypes" ->
            Strings({"DIFFUSE", "METALLIC", "None", ",", " "}, MaxTypeChars)

\* lists of up to two type names, each name a one-token string
ServerTypes(node) ==
    LET names == IF node \in LayerTypeNodes
                 THEN {<<"workfile">>, <<"capture">>, NONE}
                 ELSE {<<"DIFFUSE">>, <<"NORMAL_OGL">>, NONE}
    IN  Strings(names, 2)

TypeResponses(node) ==
    {NotFound, Ok(<<>>)}
        \cup {Ok([k \in {TypesKey(node)} |-> v]) : v \in ServerTypes(node)}

TypesInvoke ==
    \E node \in TypeNodes : \E t \in TypeStrings(node) :
        Invoke(Main, Main, node,
               [context |-> AContext, enabled |-> TRUE] @@ [k \in {TypeInput(node)} |-> t])

TypesRespond ==
    /\ calls[Main].pc = "await"
    /\ \E r \in TypeResponses(calls[Main].node) : Respond(Main, r)

TypesUnreachable == TransportError(Main)

TypesForget == Forget(Main)

NextTypes == TypesInvoke \/ TypesRespond \/ TypesUnreachable \/ TypesForget

SpecTypes == InitLayers /\ [][NextTypes]_vars

----------------------------------------------------------------------------
(* Claims about type validation *)

\* a type node was answered with a status that check_response_status_code
\* lets pass
Validated ==
    /\ calls[Main].node \in TypeNodes /\ calls[Main].pc = "done"
    /\ Len(http) = 2 /\ http[2].event = "response" /\ http[2].status = 200

TypeString == calls[Main].kwargs[TypeInput(calls[Main].node)]

\* the set V of the answer
ServerValid == Range(Get(http[2].json, TypesKey(calls[Main].node), <<>>))

\* the positions that delimit the items of s: before s, each comma, after s
Cuts(s) == {0, Len(s) + 1} \cup {i \in 1..Len(s) : s[i] = ","}

NextCut(s, c) == CHOOSE n \in Cuts(s) : n > c /\ \A m \in Cuts(s) : m > c => n <= m

\* p without its leading and trailing blanks
Trimmed(p) ==
    LET inked == {i \in 1..Len(p) : p[i] # " "}
    IN  IF inked = {} THEN <<>>
        ELSE SubSeq(p, CHOOSE a \in inked : \A i \in inked : a <= i,
                       CHOOSE b \in inked : \A i \in inked : i <= b)

\* the item that starts after cut c: a piece of the string for the nodes
\* that take a list, the whole input for the nodes that take one type
ItemAfter(node, s, c) ==
    IF node \in {"LayerTypes", "TexturesTypes"}
    THEN Trimmed(SubSeq(s, c + 1, NextCut(s, c) - 1))
    ELSE s

ItemStarts(node, s) ==
    IF node \in {"LayerTypes", "TexturesTypes"} THEN Cuts(s) \ {Len(s) + 1} ELSE {0}

\* the validation of the answered call against the set valid
ValidatesAgainst(valid) ==
    LET node == calls[Main].node
        bad == {c \in ItemStarts(node, TypeString) :
                    ItemAfter(node, TypeString, c) \notin valid}
    IN  IF bad # {}
        THEN /\ calls[Main].result.kind = "raise"
             /\ calls[Main].result.error.type = "ValueError"
             /\ calls[Main].result.error.info.item =
                    ItemAfter(node, TypeString, CHOOSE c \in bad : \A x \in bad : c <= x)
             /\ calls[Main].result.error.info.supported = valid
        ELSE /\ calls[Main].result.kind = "return"
             /\ calls[Main].result.value = <<calls[Main].kwargs.context, TypeString>>

\* C10 as stated: validation fails exactly when some trimmed item is not in
\* the set V the server returned, naming the first such item and listing V;
\* otherwise the node returns its input string.
C10_FailsOutsideServerSet == Validated => ValidatesAgainst(ServerValid)

\* C10: validation fails exactly when some trimmed item is not in the valid
\* set, which is the set the server returned for the texture nodes and that
\* set with the sentinel "None" added for the layer nodes; the error names
\* the first such item and lists the valid set; otherwise the node returns
\* its input string unchanged.
C10_FailsOutsideValidSet ==
    Validated
    => ValidatesAgainst(IF calls[Main].node \in LayerTypeNodes
                        THEN ServerValid \cup {NONE} ELSE ServerValid)

\* "DIFFUSE,METALLIC" against {"DIFFUSE", "NORMAL_OGL"}
C10_Witness ==
    /\ Validated /\ calls[Main].node = "TexturesTypes"
    /\ TypeString = <<"DIFFUSE", ",", "METALLIC">>
    /\ ServerValid = {<<"DIFFUSE">>, <<"NORMAL_OGL">>}
    /\ calls[Main].result.kind = "raise"
    /\ calls[Main].result.error.info.item = <<"METALLIC">>

\* " workfile" is trimmed, found valid and returned with its blank
C10_WitnessAccepted ==
    /\ Validated /\ calls[Main].node = "LayerTypes"
    /\ TypeString = <<" ", "workfile">>
    /\ calls[Main].result.kind = "return"

----------------------------------------------------------------------------
(* The status host: every node that talks to the service, one call at a    *)
(* time, each request answered with every status of Statuses and every     *)
(* body the node may be sent                                               *)

RemoteNodes == (GatedNodes \ {"DeleteFile"}) \cup {"IngestTexture"}

\* one status of each kind: the 2xx the service documents, a redirection
\* status that requests hands to the caller, a client and a server error
Statuses == {200, 201, 204, 304, 404, 500}

ErrorStatuses == {st \in Statuses : 400 <= st /\ st < 600}

StatusKwargs(node) ==
    IF node = "IngestTexture"
    THEN {kw \in IngestKwargs : kw.address = AContext.address}
    ELSE {[context |-> AContext, enabled |-> TRUE] @@ i : i \in BasicInputs(node)}

\* the JSON bodies node may be sent in answer to its request number step
StatusBodies(node, step) ==
    {[detail |-> <<"layer not found">>]}
        \cup {r.json : r \in (IF node = "IngestTexture" THEN IngestResponses(step)
                                                        ELSE BasicResponses(node))}

StatusResponses(node, step) ==
    {[status |-> st, json |-> b] : st \in Statuses, b \in StatusBodies(node, step)}
        \cup {[status |-> st, json |-> NotJson] : st \in ErrorStatuses}

InitStatus ==
    /\ calls = [s \in Slots |-> IdleCall]
    /\ self = [s \in Slots |-> <<>>]
    /\ http = <<>>
    /\ disk = {File1, DefaultDir, OverrideDir, Ingested}
    /\ classes = Imported

StatusInvoke ==
    \E node \in RemoteNodes : \E kw \in StatusKwargs(node) : Invoke(Main, Main, node, kw)

StatusRespond ==
    /\ calls[Main].pc = "await"
    /\ \E r \in StatusResponses(calls[Main].node, calls[Main].step) : Respond(Main, r)

StatusUnreachable == TransportError(Main)

StatusForget == Forget(Main)

NextStatus == StatusInvoke \/ StatusRespond \/ StatusUnreachable \/ StatusForget

SpecStatus == InitStatus /\ [][NextStatus]_vars

----------------------------------------------------------------------------
(* Claims about response validation *)

IsSuccess(status) == 200 <= status /\ status < 300

\* the call of the single-call host ended on an answer of the service
Answered ==
    /\ calls[Main].pc = "done"
    /\ Len(http) > 0 /\ http[Len(http)].event = "response"

LastAnswer == http[Len(http)]

\* the nodes that validate their answers with check_response_status_code
CheckingNodes == RemoteNodes \ {"IngestTexture"}

RaisedBy(types) ==
    IF calls[Main].result.kind = "raise"
    THEN calls[Main].result.error.type \in types ELSE FALSE

\* C11 as stated: a node that validates with check_response_status_code
\* fails on every answer whose status is not 2xx, with an error that carries
\* the status and the body (and with it the server's detail), and the
\* validation raises nothing on a 2xx answer.
C11_NonSuccessRaises ==
    (Answered /\ calls[Main].node \in CheckingNodes)
    => IF IsSuccess(LastAnswer.status)
       THEN ~RaisedBy({"HTTPError", "JSONDecodeError"})
       ELSE /\ RaisedBy({"HTTPError"})
            /\ calls[Main].result.error.info.status = LastAnswer.status
            /\ calls[Main].result.error.info.body = LastAnswer.json

\* what the routine does: it raises for the 4xx and 5xx statuses only, the
\* HTTPError of the status when the body is JSON and the parse error of the
\* body when it is not
C11_ClientOrServerErrorRaises ==
    (Answered /\ calls[Main].node \in CheckingNodes)
    => IF LastAnswer.status \in ErrorStatuses
       THEN IF IsJson(LastAnswer.json)
            THEN /\ RaisedBy({"HTTPError"})
                 /\ calls[Main].result.error.info.status = LastAnswer.status
                 /\ calls[Main].result.error.info.body = LastAnswer.json
            ELSE RaisedBy({"JSONDecodeError"})
       ELSE ~RaisedBy({"HTTPError", "JSONDecodeError"})

\* the service answers the pending request in this step
Answering ==
    /\ calls[Main].pc = "await"
    /\ Len(http') > Len(http) /\ http'[Len(http) + 1].event = "response"

\* C12: whichever request of whichever node is answered, a 2xx status lets
\* the node go on exactly as status 200 with the same body does, and any
\* other status ends the invocation with an error.
C12_Any2xxIsSuccess ==
    [][Answering
        => LET r == http'[Len(http) + 1]
               call == calls[Main]
           IN  IF IsSuccess(r.status)
               THEN calls'[Main] =
                        Advance(call, Resume(call.node, self[call.obj], call.args, call.step,
                                             Ok(r.json), disk))
               ELSE /\ calls'[Main].pc = "done"
                    /\ calls'[Main].result.kind = "raise"]_vars

\* the part of C12 that holds: the nodes that validate with
\* check_response_status_code go on after 200, 201 and 204 alike
C12_CheckingNodesAccept2xx ==
    [][(Answering /\ calls[Main].node \in CheckingNodes
            /\ IsSuccess(http'[Len(http) + 1].status))
        => calls'[Main] =
            Advance(calls[Main],
                    Resume(calls[Main].node, self[calls[Main].obj], calls[Main].args,
                           calls[Main].step, Ok(http'[Len(http) + 1].json), disk))]_vars

----------------------------------------------------------------------------
(* The import host: the package is imported, each class decorated in turn, *)
(* and the host then calls the nodes of the registry                       *)

Decorated(c) == classes[c] # ClassBody(c)

\* the class statement of c is the next one the import reaches
Reached(c) ==
    /\ ~Decorated(c)
    /\ \E i \in 1..Len(ImportOrder) :
          /\ ImportOrder[i] = c
          /\ \A j \in 1..(i - 1) : Decorated(ImportOrder[j])

Decorate(c, decorator_result) ==
    /\ Reached(c)
    /\ classes' = [classes EXCEPT ![c] = decorator_result]
    /\ UNCHANGED <<calls, self, http, disk>>

\* @add_context_outputs
DecorateOutputs == Decorate("StartContext", add_context_outputs(classes["StartContext"]))

\* @add_context_input_and_output
DecorateContext ==
    \E c \in GatedNodes : Decorate(c, add_context_input_and_output(classes[c]))

\* @add_context_input_enabled_and_output
DecorateGated ==
    \E c \in GatedNodes : Decorate(c, add_context_input_enabled_and_output(classes[c]))

InitSchema ==
    /\ calls = [s \in Slots |-> IdleCall]
    /\ self = [s \in Slots |-> <<>>]
    /\ http = <<>>
    /\ disk = {File1}
    /\ classes = [c \in Range(ImportOrder) |-> ClassBody(c)]

SchemaInvoke ==
    /\ classes = Imported
    /\ \E node \in GatedNodes : \E e \in BOOLEAN : \E i \in BasicInputs(node) :
          Invoke(Main, Main, node, [context |-> AContext, enabled |-> e] @@ i)

SchemaRespond ==
    /\ calls[Main].pc = "await"
    /\ \E r \in BasicResponses(calls[Main].node) : Respond(Main, r)

SchemaUnreachable == TransportError(Main)

SchemaForget == Forget(Main)

NextSchema ==
    \/ DecorateOutputs \/ DecorateContext \/ DecorateGated
    \/ SchemaInvoke \/ SchemaRespond \/ SchemaUnreachable \/ SchemaForget

SpecSchema == InitSchema /\ [][NextSchema]_vars

----------------------------------------------------------------------------
(* Claims about the schema of a decorated class *)

\* the classes whose inputs and execution function a decorator wrapped
Wrapped == {c \in GatedNodes : classes[c].FUNCTION # "body"}

\* the inputs the decorator of c adds
AddedInputs(c) ==
    IF classes[c].FUNCTION = "ContextExecutionFuncWrapper"
    THEN {"context"} ELSE {"context", "enabled"}

RequiredKeys(c) ==
    IF HasKey(classes[c].INPUT_TYPES, "required")
    THEN Keys(Lookup(classes[c].INPUT_TYPES, "required")) ELSE <<>>

\* every input the class body declares is in the augmented schema, in its
\* section, with the metadata it was declared with
KeepsDeclaredInputs(c) ==
    LET declared == ClassBody(c).INPUT_TYPES.dict
    IN  \A i \in 1..Len(declared) : \A j \in 1..Len(declared[i][2].dict) :
            LET section == declared[i][1]
                key == declared[i][2].dict[j][1]
            IN  /\ HasKey(classes[c].INPUT_TYPES, section)
                /\ HasKey(Lookup(classes[c].INPUT_TYPES, section), key)
                /\ Lookup(Lookup(classes[c].INPUT_TYPES, section), key)
                        = declared[i][2].dict[j][2]

\* the required section has the context input and, for a gated class, the
\* gate
AddsContextInputs(c) ==
    /\ HasKey(classes[c].INPUT_TYPES, "required")
    /\ LET required == Lookup(classes[c].INPUT_TYPES, "required")
       IN  /\ HasKey(required, "context")
           /\ Lookup(required, "context") = Input(CONTEXT_TYPE, "forceInput")
           /\ "enabled" \in AddedInputs(c)
                => /\ HasKey(required, "enabled")
                   /\ Lookup(required, "enabled") = Input("BOOLEAN", "default=True")

OneContextEntry(c) ==
    Cardinality({i \in 1..Len(RequiredKeys(c)) : RequiredKeys(c)[i] = "context"}) = 1

AddedInputsFirst(c) ==
    \A i, j \in 1..Len(RequiredKeys(c)) :
        (RequiredKeys(c)[i] \in AddedInputs(c) /\ RequiredKeys(c)[j] \notin AddedInputs(c))
        => i < j

AddedInputsLast(c) ==
    \A i, j \in 1..Len(RequiredKeys(c)) :
        (RequiredKeys(c)[i] \in AddedInputs(c) /\ RequiredKeys(c)[j] \notin AddedInputs(c))
        => j < i

\* C13: the augmented input schema of every decorated class keeps the
\* declared inputs with their metadata, has the required context input
\* (and the gate), lists the added inputs before the class's own required
\* inputs, and has exactly one context entry.
C13_AugmentedInputs ==
    \A c \in Wrapped :
        /\ KeepsDeclaredInputs(c) /\ AddsContextInputs(c)
        /\ AddedInputsFirst(c) /\ OneContextEntry(c)

\* the same with the order the code produces: the added inputs come after
\* the class's own required inputs
C13_AugmentedInputsAppended ==
    \A c \in Wrapped :
        /\ KeepsDeclaredInputs(c) /\ AddsContextInputs(c)
        /\ AddedInputsLast(c) /\ OneContextEntry(c)

\* C14: after decoration RETURN_TYPES is the context type followed by the
\* declared types, RETURN_NAMES is "context" followed by the declared
\* names, OUTPUT_IS_LIST is False followed by the declared flags when the
\* class declares it and absent otherwise; the three have the same length,
\* and so has every tuple the wrapped execution function returns.
C14_AugmentedOutputs ==
    /\ \A c \in Range(ImportOrder) :
          Decorated(c)
          => LET attrs == classes[c].attrs
                 body == ClassBody(c).attrs
             IN  /\ attrs.RETURN_TYPES = <<CONTEXT_TYPE>> \o body.RETURN_TYPES
                 /\ attrs.RETURN_NAMES = <<"context">> \o body.RETURN_NAMES
                 /\ Len(attrs.RETURN_TYPES) = Len(attrs.RETURN_NAMES)
                 /\ IF c \in DeclaresOutputIsList
                    THEN /\ attrs.OUTPUT_IS_LIST = <<FALSE>> \o body.OUTPUT_IS_LIST
                         /\ Len(attrs.OUTPUT_IS_LIST) = Len(attrs.RETURN_TYPES)
                    ELSE "OUTPUT_IS_LIST" \notin DOMAIN attrs
    /\ (calls[Main].pc = "done" /\ calls[Main].result.kind = "return")
          => Len(calls[Main].result.value)
                = Len(classes[calls[Main].node].attrs.RETURN_TYPES)

\* the listing node, three outputs with list flags, returned four values
C14_Witness ==
    /\ classes = Imported
    /\ calls[Main].pc = "done" /\ calls[Main].result.kind = "return"
    /\ calls[Main].node = "GetLayers" /\ calls[Main].kwargs.enabled
    /\ Len(calls[Main].result.value) = 4
    /\ classes["GetLayers"].attrs.OUTPUT_IS_LIST = <<FALSE, TRUE, TRUE, FALSE>>
    /\ "OUTPUT_IS_LIST" \notin DOMAIN classes["SaveLayer"].attrs

----------------------------------------------------------------------------
(* The texture host: the texture queries against every short answer and    *)
(* every set of files on disk                                              *)

MaxRecords == 3

UsdAttrs == {<<"attr1">>, <<"attr2">>}

\* two files of one folder and one of the same name elsewhere
File3 == <<"tex", "/", "sub", "/", "t1", ".dds">>

TextureFiles == {File1, File2, File3}

TextureQueries == {"GetTextures", "TextureTypeToUSDAttribute"}

SeqsUpTo(S, n) == UNION {[1..k -> S] : k \in 0..n}

\* the bodies of the answers: the key missing, or the array
TextureBodies(node) ==
    IF node = "GetTextures"
    THEN {<<>>} \cup {[textures |-> t] : t \in SeqsUpTo(UsdAttrs \X TextureFiles, MaxRecords)}
    ELSE {<<>>} \cup {[asset_paths |-> t] : t \in SeqsUpTo(UsdAttrs, MaxRecords)}

TextureResponses(node) ==
    {NotFound} \cup {[status |-> st, json |-> b] : st \in {200, 201}, b \in TextureBodies(node)}

InitTextures ==
    /\ calls = [s \in Slots |-> IdleCall]
    /\ self = [s \in Slots |-> <<>>]
    /\ http = <<>>
    /\ disk \in SUBSET TextureFiles
    /\ classes = Imported

TextureKwargs(node) ==
    {[context |-> AContext] @@ [enabled |-> e] @@ i : e \in BOOLEAN, i \in BasicInputs(node)}

TexturesInvoke ==
    \E node \in TextureQueries : \E kw \in TextureKwargs(node) : Invoke(Main, Main, node, kw)

TexturesRespond ==
    /\ calls[Main].pc = "await"
    /\ \E r \in TextureResponses(calls[Main].node) : Respond(Main, r)

TexturesUnreachable == TransportError(Main)

TexturesForget == Forget(Main)

NextTextures == TexturesInvoke \/ TexturesRespond \/ TexturesUnreachable \/ TexturesForget

SpecTextures == InitTextures /\ [][NextTextures]_vars

----------------------------------------------------------------------------
(* Claims about the texture queries *)

\* the call of node ended on a successful answer
Succeeded(node) ==
    /\ calls[Main].node = node
    /\ Answered /\ IsSuccess(LastAnswer.status)

AnsweredRecords == Get(LastAnswer.json, "textures", <<>>)

\* the records whose file is on disk, in the order of the answer
OnDisk == SelectSeq(AnsweredRecords, LAMBDA rec : rec[2] \in disk)

RaisedValueError(info) ==
    /\ calls[Main].result.kind = "raise"
    /\ calls[Main].result.error = [type |-> "ValueError", info |-> info]

\* C15: an enabled texture listing fails with a ValueError when the answer
\* has no record, fails with another ValueError when none of the records'
\* files is on disk, and otherwise returns, in each of its three lists, one
\* entry per record whose file is on disk, in the order of the answer, and
\* nothing for a record whose file is missing.
C15_TextureListing ==
    Succeeded("GetTextures")
    => IF Len(AnsweredRecords) = 0 THEN RaisedValueError("No textures found")
       ELSE IF Len(OnDisk) = 0 THEN RaisedValueError("No textures found on disk")
       ELSE /\ calls[Main].result.kind = "return"
            /\ calls[Main].result.value[2].list = [i \in 1..Len(OnDisk) |-> OnDisk[i][1]]
            /\ calls[Main].result.value[3].list = [i \in 1..Len(OnDisk) |-> Stem(OnDisk[i][2])]
            /\ calls[Main].result.value[4].list
                    = [i \in 1..Len(OnDisk) |-> LoadImage(OnDisk[i][2])]

\* three records, the file of the second one missing: two entries returned
C15_Witness ==
    /\ Succeeded("GetTextures")
    /\ calls[Main].result.kind = "return"
    /\ Len(AnsweredRecords) = 3
    /\ AnsweredRecords[1][2] \in disk
    /\ AnsweredRecords[2][2] \notin disk
    /\ AnsweredRecords[3][2] \in disk
    /\ AnsweredRecords[1][1] # AnsweredRecords[3][1]
    /\ Len(calls[Main].result.value[2].list) = 2

\* records in the answer, none of them on disk
C15_WitnessNoneOnDisk ==
    /\ Succeeded("GetTextures")
    /\ Len(AnsweredRecords) > 0
    /\ RaisedValueError("No textures found on disk")

AnsweredPaths == Get(LastAnswer.json, "asset_paths", <<>>)

\* C16: on a successful answer the enabled lookup returns the first element
\* of asset_paths as its one output, and fails with a ValueError when
\* asset_paths is empty or missing.
C16_FirstAssetPath ==
    Succeeded("TextureTypeToUSDAttribute")
    => IF Len(AnsweredPaths) = 0
       THEN /\ calls[Main].result.kind = "raise"
            /\ calls[Main].result.error.type = "ValueError"
       ELSE /\ calls[Main].result.kind = "return"
            /\ Len(calls[Main].result.value) = 2
            /\ calls[Main].result.value[2] = AnsweredPaths[1]

\* several paths in the answer, the first one differing from the last
C16_Witness ==
    /\ Succeeded("TextureTypeToUSDAttribute")
    /\ calls[Main].result.kind = "return"
    /\ Len(AnsweredPaths) = 3
    /\ AnsweredPaths[1] # AnsweredPaths[3]
    /\ calls[Main].result.value[2] = AnsweredPaths[1]

\* the key missing from a successful answer
C16_WitnessAbsent ==
    /\ Succeeded("TextureTypeToUSDAttribute")
    /\ "asset_paths" \notin DOMAIN LastAnswer.json
    /\ calls[Main].result.kind = "raise"

----------------------------------------------------------------------------
(* The file host: the two nodes that expect paths on the local disk, with  *)
(* every set of those paths present                                        *)

FileNodes == {"DeleteFile", "IngestTexture"}

FileKwargs(node) ==
    IF node = "IngestTexture" THEN IngestKwargs
    ELSE {[context |-> AContext] @@ [enabled |-> e] @@ i :
            e \in BOOLEAN, i \in BasicInputs(node)}

InitFiles ==
    /\ calls = [s \in Slots |-> IdleCall]
    /\ self = [s \in Slots |-> <<>>]
    /\ http = <<>>
    /\ disk \in SUBSET {File1, DefaultDir, OverrideDir, Ingested}
    /\ classes = Imported

FilesInvoke ==
    \E node \in FileNodes : \E kw \in FileKwargs(node) : Invoke(Main, Main, node, kw)

FilesRespond ==
    /\ calls[Main].pc = "await"
    /\ \E r \in IngestResponses(calls[Main].step) : Respond(Main, r)

FilesUnreachable == TransportError(Main)

FilesForget == Forget(Main)

NextFiles == FilesInvoke \/ FilesRespond \/ FilesUnreachable \/ FilesForget

SpecFiles == InitFiles /\ [][NextFiles]_vars

----------------------------------------------------------------------------
(* Claims about missing local paths *)

\* the step that ends the call of the single-call host
Ending == calls[Main].pc # "done" /\ calls'[Main].pc = "done"

EndsRaising == calls'[Main].result.kind = "raise"

\* an ingestion asked to write into an override folder that is not there
\* ends with an error, and an ingestion never returns a path that is not
\* on disk
IngestMissingPathFatal ==
    calls'[Main].node = "IngestTexture"
    => /\ (/\ calls'[Main].kwargs.enable_override_output_folder
           /\ calls'[Main].kwargs.override_output_folder \notin disk)
          => EndsRaising
       /\ calls'[Main].result.kind = "return"
          => calls'[Main].result.value[1] \in disk'

\* an enabled deletion of a file that is not there ends with an error
DeleteMissingPathFatal ==
    (/\ calls'[Main].node = "DeleteFile"
     /\ calls'[Main].kwargs.enabled
     /\ calls'[Main].kwargs.path \notin disk)
    => EndsRaising

\* C17: a missing local path is fatal: an ingestion whose enabled override
\* folder does not exist, an ingestion whose ingested file does not exist
\* and a deletion whose file does not exist all end with an error instead
\* of a result.
C17_MissingPathFatal ==
    [][Ending => (IngestMissingPathFatal /\ DeleteMissingPathFatal)]_vars

\* the two cases of the ingestion alone
C17_IngestMissingPathFatal == [][Ending => IngestMissingPathFatal]_vars

\* the ingestion did fail on the missing folder and on the missing file
C17_WitnessFolder ==
    /\ calls[Main].pc = "done" /\ calls[Main].node = "IngestTexture"
    /\ calls[Main].result.kind = "raise"
    /\ calls[Main].result.error.type = "FileNotFoundError"
    /\ Len(http) = 0

C17_WitnessFile ==
    /\ calls[Main].pc = "done" /\ calls[Main].node = "IngestTexture"
    /\ calls[Main].result.kind = "raise"
    /\ calls[Main].result.error.type = "FileNotFoundError"
    /\ Answered /\ LastAnswer.status = 200

----------------------------------------------------------------------------
(* Claims about the layer mutations and about retries *)

LayerMutations == {"CreateLayer", "MuteLayer", "RemoveLayer", "SaveLayer", "SetEditTarget"}

\* the call returned the context and the caller's layer_id, as given
ReturnedCallerLayerId ==
    /\ calls[Main].result.kind = "return"
    /\ calls[Main].result.value = <<calls[Main].kwargs.context, calls[Main].kwargs.layer_id>>

\* C18: an enabled layer mutation answered with a 2xx status returns the
\* layer_id it was given, unchanged; answered with any other status it
\* returns nothing and ends with the error.
C18_ReEmitsLayerId ==
    (Answered /\ calls[Main].node \in LayerMutations)
    => IF IsSuccess(LastAnswer.status)
       THEN ReturnedCallerLayerId
       ELSE calls[Main].result.kind = "raise"

\* the same for the statuses the status check does refuse
C18_ReEmitsLayerIdUnlessError ==
    (Answered /\ calls[Main].node \in LayerMutations)
    => IF LastAnswer.status \in ErrorStatuses
       THEN calls[Main].result.kind = "raise"
       ELSE ReturnedCallerLayerId

\* a mutation that sent the normalized, escaped path and returned the
\* caller's spelling
C18_Witness ==
    /\ Answered /\ calls[Main].node = "MuteLayer"
    /\ LastAnswer.status = 204
    /\ ReturnedCallerLayerId
    /\ calls[Main].kwargs.layer_id # posix(calls[Main].kwargs.layer_id)

Requests == {i \in 1..Len(http) : http[i].event = "request"}

\* no request was sent twice, and every request but the first follows a
\* 2xx answer to the one before
NoRequestRepeated ==
    /\ \A i, j \in Requests : i # j => http[i].req # http[j].req
    /\ \A i \in Requests :
          i > 1 => /\ http[i - 1].event = "response"
                   /\ IsSuccess(http[i - 1].status)
    /\ Cardinality(Requests) <= (IF calls[Main].node = "IngestTexture" THEN 2 ELSE 1)

\* the pending request fails in this step: a transport failure or an answer
\* whose status is in refused
FailingWith(refused) ==
    /\ calls[Main].pc = "await"
    /\ Len(http') > Len(http)
    /\ \/ http'[Len(http) + 1].event = "failed"
       \/ /\ http'[Len(http) + 1].event = "response"
          /\ http'[Len(http) + 1].status \in refused

\* ... and the call ends with an error without another request
EndsWithoutRequest ==
    /\ calls'[Main].pc = "done"
    /\ calls'[Main].result.kind = "raise"
    /\ Len(http') = Len(http) + 1

\* C19: no request of an invocation is sent twice, and a transport failure
\* or an answer that is not 2xx ends the invocation with an error and
\* without any further request.
C19_NoRetries ==
    [][/\ NoRequestRepeated'
       /\ FailingWith({st \in Statuses : ~IsSuccess(st)}) => EndsWithoutRequest]_vars

\* the same for the statuses the nodes do refuse
C19_NoRetriesAfterError ==
    [][/\ NoRequestRepeated'
       /\ FailingWith(ErrorStatuses) => EndsWithoutRequest]_vars

----------------------------------------------------------------------------
(* The sentinel host: the type nodes of the type host and the creation of  *)
(* a layer, with and without a type                                        *)

SentinelCreate ==
    \E i \in BasicInputs("CreateLayer") :
        Invoke(Main, Main, "CreateLayer", [context |-> AContext] @@ [enabled |-> TRUE] @@ i)

SentinelRespond ==
    /\ calls[Main].pc = "await"
    /\ \E r \in (IF calls[Main].node \in TypeNodes
                 THEN TypeResponses(calls[Main].node)
                 ELSE BasicResponses(calls[Main].node)) : Respond(Main, r)

NextSentinel ==
    TypesInvoke \/ SentinelCreate \/ SentinelRespond \/ TypesUnreachable \/ TypesForget

SpecSentinel == InitLayers /\ [][NextSentinel]_vars

----------------------------------------------------------------------------
(* Claims about the sentinel "None" *)

\* the validation refused the sentinel
SentinelRefused ==
    /\ Validated
    /\ calls[Main].result.kind = "raise"
    /\ calls[Main].result.error.type = "ValueError"
    /\ calls[Main].result.error.info.item = NONE

\* a request of the call carries the sentinel as a type
SentinelSent ==
    \E i \in Requests :
        LET q == http[i].req
        IN  \/ q.target = NONE
            \/ \E k \in DOMAIN q.data \cap {"layer_type", "layer_types", "texture_types"} :
                  q.data[k] = NONE

\* the creation of a layer given the sentinel sends a null layer_type
CreateSendsNull ==
    (/\ calls[Main].node = "CreateLayer"
     /\ calls[Main].kwargs.layer_type = NONE
     /\ Len(http) > 0)
    => http[1].req.data.layer_type = PyNone

C20_WitnessCreate ==
    /\ calls[Main].node = "CreateLayer" /\ calls[Main].pc = "done"
    /\ calls[Main].kwargs.layer_type = NONE
    /\ calls[Main].result.kind = "return"
    /\ http[1].req.data.layer_type = PyNone

\* "None" refused by a texture node
C20_WitnessRefused ==
    /\ SentinelRefused /\ calls[Main].node = "TexturesTypes"

----------------------------------------------------------------------------
(* The registry host: every node class of NODE_CLASS_MAPPINGS that is      *)
(* defined in the package, called one at a time                            *)

\* the names of NODE_CLASS_MAPPINGS whose classes the package defines
RegistryNodes ==
    Range(ImportOrder) \cup {"EndContext", "RestAPIDetails", "DefineLayerId", "IngestTexture"}

\* the class object the registry holds under a name: the classes that
\* carry no decorator are as their class statement made them
Registered(c) == IF c \in DOMAIN classes THEN classes[c] ELSE ClassBody(c)

RegistryKwargs(node) ==
    CASE node \in GatedNodes ->
            {[context |-> c] @@ [enabled |-> e] @@ i :
                c \in Contexts, e \in BOOLEAN, i \in BasicInputs(node)}
      [] node \in {"StartContext", "RestAPIDetails"} ->
            {[address |-> c.address] @@ [port |-> c.port] : c \in Contexts}
      [] node = "EndContext" -> {[context |-> c] : c \in Contexts}
      [] node = "DefineLayerId" ->
            {[name |-> <<"m">>] @@ [parent_layer_id |-> p] @@ dirs :
                p \in LayerIdInputs, dirs \in {<<>>, [directories |-> <<"sub">>]}}
      [] node = "IngestTexture" -> IngestKwargs

InitRegistry ==
    /\ calls = [s \in Slots |-> IdleCall]
    /\ self = [s \in Slots |-> <<>>]
    /\ http = <<>>
    /\ disk = {File1, DefaultDir, OverrideDir, Ingested}
    /\ classes = Imported

RegistryInvoke ==
    \E node \in RegistryNodes : \E kw \in RegistryKwargs(node) : Invoke(Main, Main, node, kw)

RegistryRespond ==
    /\ calls[Main].pc = "await"
    /\ \E r \in (IF calls[Main].node = "IngestTexture"
                 THEN IngestResponses(calls[Main].step)
                 ELSE BasicResponses(calls[Main].node)) : Respond(Main, r)

RegistryUnreachable == TransportError(Main)

RegistryForget == Forget(Main)

NextRegistry == RegistryInvoke \/ RegistryRespond \/ RegistryUnreachable \/ RegistryForget

SpecRegistry == InitRegistry /\ [][NextRegistry]_vars

----------------------------------------------------------------------------
(* Claims about the source and the sink of contexts *)

\* the positions of the context type among the declared outputs of c
ContextOutputs(c) ==
    {i \in 1..Len(Registered(c).attrs.RETURN_TYPES) :
        Registered(c).attrs.RETURN_TYPES[i] = CONTEXT_TYPE}

\* the names of the inputs of c, of whatever section, of the context type
ContextInputs(c) ==
    LET sections == Registered(c).INPUT_TYPES.dict
    IN  {sections[i][2].dict[j][1] :
            <<i, j>> \in {ij \in (1..Len(sections)) \X (1..8) :
                            /\ ij[2] <= Len(sections[ij[1]][2].dict)
                            /\ sections[ij[1]][2].dict[ij[2]][2].type = CONTEXT_TYPE}}

Returned(node) ==
    /\ calls[Main].node = node /\ calls[Main].pc = "done"
    /\ calls[Main].result.kind = "return"

C21_WitnessEnd == Returned("EndContext") /\ calls[Main].result.value = <<>>

\* a context threaded through a node that called the service
C21_WitnessThreaded ==
    /\ Returned("SaveLayer") /\ Len(http) = 2
    /\ calls[Main].result.value[1] = calls[Main].kwargs.context
    /\ calls[Main].kwargs.context.address # "127.0.0.1"

----------------------------------------------------------------------------
(* Claims about the wrapper's contract with the body it wraps *)

\* what the wrapper leaves of the keyword arguments for the body
Remaining(kwargs) == Without(Without(kwargs, "context"), "enabled")

\* slot s started a wrapped node with a context and its declared inputs
StartedWrapped(s, nodes) ==
    /\ Started(s)
    /\ calls'[s].node \in nodes
    /\ HasContext(calls'[s].kwargs)

\* the wrapper removed the context, ran the body with the rest and will
\* prepend the context to what the body returns
RanBody(s) ==
    LET call == calls'[s]
        me == self'[call.obj]
        body == Enter(call.node, me, Remaining(call.kwargs), disk)
    IN  /\ "context" \notin DOMAIN call.args
        /\ call.args = Remaining(call.kwargs)
        /\ call.head = <<call.kwargs.context>>
        /\ me.context = call.kwargs.context
        /\ http' = Log(http, s, body)
        /\ call.pc = IF body.kind = "request" THEN "await" ELSE "done"
        /\ body.kind # "request" => call.result = Finish(<<call.kwargs.context>>, body)

\* the one GET of an enabled GetEditTarget
EditTargetRequested(s) ==
    (calls'[s].node = "GetEditTarget" /\ calls'[s].kwargs.enabled)
    => /\ calls'[s].pc = "await"
       /\ http' = Append(http, [slot |-> s, event |-> "request",
                                req |-> HttpGet(calls'[s].kwargs.context,
                                                "stagecraft/layers/target", <<>>, <<>>)])

\* the answer to that GET comes back as (context, unquoted layer_id)
EditTargetReturned(s) ==
    (/\ calls[s].pc = "await" /\ calls[s].node = "GetEditTarget"
     /\ Len(http') = Len(http) + 1
     /\ http'[Len(http')].event = "response"
     /\ IsSuccess(http'[Len(http')].status)
     /\ "layer_id" \in DOMAIN http'[Len(http')].json)
    => /\ calls'[s].pc = "done"
       /\ calls'[s].result = [kind |-> "return",
                              value |-> <<calls[s].kwargs.context,
                                          unquote(http'[Len(http')].json.layer_id)>>]

\* C22: an invocation of a context-wrapped node that supplies a context
\* and the declared inputs has `context` removed from the keyword
\* arguments, runs the body with exactly the remaining arguments and
\* returns (context,) + the body's result; an enabled GetEditTarget so
\* invoked issues one GET and returns (context, URL-unquoted layer_id).
C22_WrapperContract ==
    [][\A s \in Slots :
        /\ StartedWrapped(s, GatedNodes) => (RanBody(s) /\ EditTargetRequested(s))
        /\ EditTargetReturned(s)]_vars

\* the same contract for every wrapped node but GetEditTarget
C22_WrapperContractButGetEditTarget ==
    [][\A s \in Slots :
        StartedWrapped(s, GatedNodes \ {"GetEditTarget"}) => RanBody(s)]_vars

\* an enabled GetEditTarget, given a context, ended in the TypeError of
\* the call that binds its arguments, with nothing sent
C22_WitnessEditTarget ==
    /\ calls[Main].pc = "done"
    /\ calls[Main].node = "GetEditTarget"
    /\ HasContext(calls[Main].kwargs) /\ calls[Main].kwargs.enabled
    /\ calls[Main].result.kind = "raise"
    /\ calls[Main].result.error.type = "TypeError"
    /\ http = <<>>

\* another wrapped node returned the context in front of its body's result
C22_Witness ==
    /\ Answered
    /\ calls[Main].node = "SaveLayer"
    /\ calls[Main].result.kind = "return"
    /\ calls[Main].result.value = <<calls[Main].kwargs.context, calls[Main].args.layer_id>>
    /\ calls[Main].kwargs.context.port = 8012

----------------------------------------------------------------------------
(* The listing host: the layer-listing host with, among the filters, a     *)
(* pattern that does not compile                                           *)

ListingQueries ==
    LayerQueries
    \cup {[layer_types |-> <<"workfile">>] @@ [sublayers |-> sl]
            @@ [crash_if_not_exist |-> cr] @@ [regex_filter |-> <<"(", "p">>] :
                sl \in BOOLEAN, cr \in BOOLEAN}

\* the forests a query is answered with: up to MaxLayers entries, and up
\* to two for a query that ends at the first entry, whatever follows it
ForestSize(q) ==
    IF "regex_filter" \in DOMAIN q /\ ~re_compiles(q.regex_filter) THEN 2 ELSE MaxLayers

ListingInvoke ==
    \E q \in ListingQueries :
        Invoke(Main, Main, "GetLayers", [context |-> AContext] @@ [enabled |-> TRUE] @@ q)

ListingRespond ==
    \/ \E r \in {NotFound, Ok(<<>>)} : Respond(Main, r)
    \/ /\ calls[Main].pc = "await"
       /\ \E n \in 0..ForestSize(calls[Main].kwargs) :
            \E parent \in Parents(n) : \E path \in [1..n -> RawPaths] :
               Respond(Main, Ok([layers |-> Forest(parent, path)]))

NextListing == ListingInvoke \/ ListingRespond \/ LayersUnreachable \/ LayersForget

SpecListing == InitLayers /\ [][NextListing]_vars

----------------------------------------------------------------------------
(* Claims about duplicates in the layer listing *)

\* the paths that occur in the answer, at any depth
AnsweredPathsAll == Range(PathsOf(LevelOrder(AnsweredLayers)))

\* the paths of the entries the loop dequeues without skipping them
VisitedPaths == Range(PathsOf(Visited(AnsweredLayers, {})))

\* C23: a dequeued entry whose normalized path was seen before contributes
\* nothing to the outputs and its children are never enqueued: with
\* sublayers on, a path that occurs only below such duplicate entries is
\* not returned, and no path is returned twice.
C23_DuplicateCutsSubtree ==
    (ListedOk /\ calls[Main].kwargs.sublayers)
    => /\ Range(ReturnedIds) \cap (AnsweredPathsAll \ VisitedPaths) = {}
       /\ NoRepeats(ReturnedIds)
       /\ Len(ReturnedTypes) = Len(ReturnedIds)

\* "q" is listed twice at the top and "p/b" only under the second "q":
\* the listing returns "q" alone
C23_Witness ==
    /\ ListedOk /\ calls[Main].kwargs.sublayers
    /\ "regex_filter" \notin DOMAIN calls[Main].kwargs
    /\ PathsOf(AnsweredLayers) = << <<"q">>, <<"q">> >>
    /\ Len(AnsweredLayers[1].children) = 0
    /\ PathsOf(AnsweredLayers[2].children) = << <<"p", "/", "b">> >>
    /\ ReturnedIds = << <<"q">> >>

----------------------------------------------------------------------------
(* Claims about the outcome of a listing that was answered with layers *)

\* the entries the loop visits under the query of the call
VisitedBy(q) ==
    IF q.sublayers THEN Visited(AnsweredLayers, {}) ELSE FirstOccurrences(AnsweredLayers, {})

\* the listing returned aligned sequences, the flag telling whether they
\* are empty
AlignedOutputs ==
    LET q == calls[Main].kwargs
        kept == Passing(q, VisitedBy(q))
        value == calls[Main].result.value
    IN  /\ calls[Main].result.kind = "return"
        /\ Len(ReturnedTypes) = Len(ReturnedIds)
        /\ ReturnedIds = PathsOf(kept)
        /\ \A i \in 1..Len(ReturnedIds) :
            ReturnedTypes[i] = IF kept[i].layer_type = PyNone THEN NONE
                               ELSE kept[i].layer_type
        /\ value[4] = (Len(ReturnedIds) > 0)
        /\ Len(kept) = 0 => value = <<q.context, List(<<>>), List(<<>>), FALSE>>

\* C25 as stated: a listing answered with at least one layer never raises;
\* it returns layer_ids and layer_types of equal length, layer_types[i]
\* being the type of layer_ids[i] with null rendered "None", and
\* all_layer_type_exist = (layer_ids non-empty); when the filter rejects
\* every layer the result is ([], [], false), crash_if_not_exist or not.
C25_ListingNeverRaises ==
    (Listed /\ Len(AnsweredLayers) > 0) => AlignedOutputs

\* C25: the same for a listing whose regex_filter is absent or a pattern
\* that compiles; with a pattern that does not compile the listing ends
\* with re.error.
C25_ListingNeverRaisesValidFilter ==
    (Listed /\ Len(AnsweredLayers) > 0)
    => IF "regex_filter" \in DOMAIN calls[Main].kwargs
          /\ ~re_compiles(calls[Main].kwargs.regex_filter)
       THEN /\ calls[Main].result.kind = "raise"
            /\ calls[Main].result.error.type = "re.error"
       ELSE AlignedOutputs

\* the filter "p/" rejects the only layer "q" and crash_if_not_exist is set
C25_Witness ==
    /\ Listed /\ Len(AnsweredLayers) > 0
    /\ calls[Main].kwargs.crash_if_not_exist
    /\ "regex_filter" \in DOMAIN calls[Main].kwargs
    /\ re_compiles(calls[Main].kwargs.regex_filter)
    /\ calls[Main].result.kind = "return"
    /\ calls[Main].result.value = <<calls[Main].kwargs.context, List(<<>>), List(<<>>), FALSE>>

\* a layer whose type is null is returned with the type "None"
C25_WitnessNullType ==
    /\ ListedOk
    /\ Len(AnsweredLayers) = 2
    /\ AnsweredLayers[1].layer_type = PyNone
    /\ AnsweredLayers[2].layer_type # PyNone
    /\ Len(ReturnedIds) = 2
    /\ ReturnedTypes = << NONE, AnsweredLayers[2].layer_type >>
    /\ calls[Main].result.value[4]

\* a pattern that does not compile ended the listing
C25_WitnessInvalidPattern ==
    /\ Listed /\ Len(AnsweredLayers) > 0
    /\ calls[Main].result.kind = "raise"
    /\ calls[Main].result.error.type = "re.error"

----------------------------------------------------------------------------
(* The shared-instance host: two invocations in flight at once, each with  *)
(* its own context, on one node instance or on two; the wrapper runs       *)
(* statement by statement                                                  *)

First == Main      \* the invocation carrying 127.0.0.1:8011, and its instance
Second == Main + 1     \* the invocation carrying 10.0.0.2:8012, and the other instance

ContextOf(s) ==
    IF s = First THEN [address |-> "127.0.0.1", port |-> 8011]
    ELSE [address |-> "10.0.0.2", port |-> 8012]

\* the class of each instance
ClassOf(o) == IF o = First THEN "MuteLayer" ELSE "SaveLayer"

\* the instances an invocation may run on: the first invocation on the
\* first instance, the second on either
InstancesOf(s) == IF s = First THEN {First} ELSE {First, Second}

SharedKwargs(s, o) ==
    {[context |-> ContextOf(s)] @@ [enabled |-> e] @@ i :
        e \in BOOLEAN, i \in BasicInputs(ClassOf(o))}

InitShared ==
    /\ calls = [s \in Slots |-> IdleCall]
    /\ self = [s \in Slots |-> <<>>]
    /\ http = <<>>
    /\ disk = {}
    /\ classes = Imported

\* `instance.context = kwargs.pop("context")`, and the gate flag likewise
StoreContext(s, o, kwargs) ==
    /\ calls[s].pc = "idle"
    /\ LET p == PopContext(kwargs)
           e == PopEnabled(SetAttr(self[o], "context", p.value), p.rest)
       IN  /\ self' = [self EXCEPT ![o] = e.me]
           /\ calls' = [calls EXCEPT ![s] =
                            [IdleCall EXCEPT !.node = ClassOf(o), !.obj = o,
                                             !.kwargs = kwargs, !.args = e.kwargs,
                                             !.pc = "stored"]]
    /\ UNCHANGED <<http, disk, classes>>

\* the left operand of the return statement: `(instance.context,)`
ReadContext(s) ==
    /\ calls[s].pc = "stored"
    /\ calls' = [calls EXCEPT ![s].head = ContextTuple(self[calls[s].obj]),
                              ![s].pc = "called"]
    /\ UNCHANGED <<self, http, disk, classes>>

\* `self.func(instance, **kwargs)`: the body up to its request or return,
\* reading the gate flag and the context off the instance
CallBody(s) ==
    /\ calls[s].pc = "called"
    /\ LET call == calls[s]
           eff == IF Binds(call.node, call.args)
                  THEN Enter(call.node, self[call.obj], call.args, disk)
                  ELSE Raise("TypeError", "arguments do not bind", disk)
       IN  /\ calls' = [calls EXCEPT ![s] = Advance(call, eff)]
           /\ http' = Log(http, s, eff)
           /\ disk' = eff.disk
    /\ UNCHANGED <<self, classes>>

SharedInvoke ==
    \E s \in {First, Second} : \E o \in InstancesOf(s) : \E kw \in SharedKwargs(s, o) :
        StoreContext(s, o, kw)

SharedReadContext == \E s \in {First, Second} : ReadContext(s)

SharedCallBody == \E s \in {First, Second} : CallBody(s)

SharedRespond ==
    \E s \in {First, Second} : \E r \in BasicResponses(calls[s].node) : Respond(s, r)

SharedUnreachable == \E s \in {First, Second} : TransportError(s)

SharedForget == \E s \in {First, Second} : Forget(s)

NextShared ==
    \/ SharedInvoke \/ SharedReadContext \/ SharedCallBody
    \/ SharedRespond \/ SharedUnreachable \/ SharedForget

SpecShared == InitShared /\ [][NextShared]_vars

\* every request invocation s has in the log went to the endpoint of the
\* context s was given, and what s returned starts with that context
OwnContext(s) ==
    /\ \A i \in Requests :
        http[i].slot = s
        => /\ http[i].req.address = calls[s].kwargs.context.address
           /\ http[i].req.port = calls[s].kwargs.context.port
    /\ (calls[s].pc = "done" /\ calls[s].result.kind = "return")
        => calls[s].result.value[1] = calls[s].kwargs.context

\* C24: for any interleaving of two invocations of context-threading nodes
\* that carry different contexts, on two instances or on one, every HTTP
\* request of an invocation targets the address and port of that
\* invocation's own context and the context it returns is its own.
C24_NoSharedState ==
    \A s \in {First, Second} : calls[s].pc # "idle" => OwnContext(s)

\* the same for the invocation on the instance no other invocation uses
C24_OwnInstanceOwnContext ==
    \A s \in {First, Second} :
        (calls[s].pc # "idle" /\ calls[s].obj = Second) => OwnContext(s)

\* the first invocation's request went to the second's endpoint
C24_WitnessWrongEndpoint ==
    /\ calls[First].pc = "await"
    /\ calls[Second].obj = First
    /\ \E i \in Requests :
        /\ http[i].slot = First
        /\ http[i].req.address = "10.0.0.2" /\ http[i].req.port = 8012

\* the first invocation returned the second's context
C24_WitnessWrongContext ==
    /\ calls[First].pc = "done" /\ calls[First].result.kind = "return"
    /\ calls[First].result.value[1] = ContextOf(Second)

\* on its own instance the second invocation was answered and returned
\* its own context while the first was in flight
C24_WitnessOwnInstance ==
    /\ calls[Second].pc = "done" /\ calls[Second].obj = Second
    /\ calls[Second].result.kind = "return"
    /\ calls[Second].result.value = <<ContextOf(Second), calls[Second].args.layer_id>>
    /\ calls[First].pc = "await"

----------------------------------------------------------------------------
(* Class objects with inheritance: the layer operations that derive from   *)
(* _LayerOp.  A class object holds its own attributes and its base; a      *)
(* lookup that misses goes to the base; an assignment binds on the class   *)
(* it is made on                                                           *)

LayerOps == {"MuteLayer", "RemoveLayer", "SaveLayer", "SetEditTarget"}

\* a function object: the `def` it comes from and, for a wrapper, the
\* function it closes over
Def(name) == [def |-> name]

Closure(name, func) == [def |-> name, func |-> func]

\* class _LayerOp
LayerOpClass ==
    [base |-> "object",
     own |-> [INPUT_TYPES |-> Def("_LayerOp.INPUT_TYPES"),
              RETURN_TYPES |-> <<"STRING">>,
              RETURN_NAMES |-> <<"layer_id">>,
              FUNCTION |-> "execute",
              execute |-> Def("_LayerOp.execute")]]

\* class c(_LayerOp): MuteLayer and RemoveLayer define INPUT_TYPES and
\* execute, SaveLayer and SetEditTarget execute alone
LayerOpSubclass(c) ==
    [base |-> "_LayerOp",
     own |-> IF c \in {"MuteLayer", "RemoveLayer"}
             THEN [INPUT_TYPES |-> Def(c), execute |-> Def(c)]
             ELSE [execute |-> Def(c)]]

\* the class on which a lookup of `name` on c finds the attribute,
\* "object" when no class of the chain has it
RECURSIVE Owner(_, _, _)
Owner(cs, c, name) ==
    IF c = "object" THEN "object"
    ELSE IF name \in DOMAIN cs[c].own THEN c
    ELSE Owner(cs, cs[c].base, name)

\* hasattr(cls, name)
hasattr(cs, c, name) == Owner(cs, c, name) # "object"

\* getattr(cls, name, ()) with the lookup along the bases
getattr_mro(cs, c, name) ==
    IF hasattr(cs, c, name) THEN cs[Owner(cs, c, name)].own[name] ELSE <<>>

\* setattr(cls, name, value): binds the name on cls itself
setattr(cs, c, name, value) == [cs EXCEPT ![c].own = SetAttr(cs[c].own, name, value)]

\* the assignment made on the class the attribute was found on
setattr_on_owner(cs, c, name, value) ==
    setattr(cs, IF hasattr(cs, c, name) THEN Owner(cs, c, name) ELSE c, name, value)

\* what calling an INPUT_TYPES function returns; every call builds its
\* dicts anew
RECURSIVE CallInputTypes(_, _)
CallInputTypes(cs, f) ==
    CASE f.def = "_LayerOp.INPUT_TYPES" -> LayerOpInputs
      [] f.def = "MuteLayer" ->
            merge_dict(CallInputTypes(cs, getattr_mro(cs, "_LayerOp", "INPUT_TYPES")),
                       Dict(<<Section("required",
                                << <<"mute", Input("BOOLEAN", "default=True")>> >>)>>))
      [] f.def = "RemoveLayer" ->
            merge_dict(CallInputTypes(cs, getattr_mro(cs, "_LayerOp", "INPUT_TYPES")),
                       Dict(<<Section("required",
                                << <<"parent_layer_id", Input("STRING", "forceInput")>> >>)>>))
      [] f.def = "wrap_input_types_with_context" ->
            merge_dict(get_context_inputs, CallInputTypes(cs, f.func))
      [] f.def = "wrap_input_types_with_context_enabled" ->
            merge_dict(get_context_inputs_enabled, CallInputTypes(cs, f.func))

\* add_context_outputs with its assignments made where the attribute lives
add_context_outputs_on_owner(cs, c) ==
    LET types == setattr_on_owner(cs, c, "RETURN_TYPES",
                    <<CONTEXT_TYPE>> \o getattr_mro(cs, c, "RETURN_TYPES"))
        names == setattr_on_owner(types, c, "RETURN_NAMES",
                    <<"context">> \o getattr_mro(types, c, "RETURN_NAMES"))
    IN  IF hasattr(names, c, "OUTPUT_IS_LIST")
        THEN setattr_on_owner(names, c, "OUTPUT_IS_LIST",
                    <<FALSE>> \o getattr_mro(names, c, "OUTPUT_IS_LIST"))
        ELSE names

\* add_context_outputs(cls) on the class objects cs
add_context_outputs_of(cs, c) ==
    LET types == setattr(cs, c, "RETURN_TYPES",
                    <<CONTEXT_TYPE>> \o getattr_mro(cs, c, "RETURN_TYPES"))
        names == setattr(types, c, "RETURN_NAMES",
                    <<"context">> \o getattr_mro(types, c, "RETURN_NAMES"))
    IN  IF hasattr(names, c, "OUTPUT_IS_LIST")
        THEN setattr(names, c, "OUTPUT_IS_LIST",
                    <<FALSE>> \o getattr_mro(names, c, "OUTPUT_IS_LIST"))
        ELSE names

\* add_context_input_and_output(cls) on the class objects cs
add_context_input_and_output_of(cs, c) ==
    LET outputs == add_context_outputs_of(cs, c)
        inputs == setattr(outputs, c, "INPUT_TYPES",
                    Closure("wrap_input_types_with_context",
                            getattr_mro(outputs, c, "INPUT_TYPES")))
        function_name == getattr_mro(inputs, c, "FUNCTION")
    IN  setattr(inputs, c, function_name,
                Closure("ContextExecutionFuncWrapper",
                        getattr_mro(inputs, c, function_name)))

\* the decorator the layer operations carry: context and gate
add_context_input_enabled_and_output_of(cs, c) ==
    LET outputs == add_context_outputs_of(cs, c)
        inputs == setattr(outputs, c, "INPUT_TYPES",
                    Closure("wrap_input_types_with_context_enabled",
                            getattr_mro(outputs, c, "INPUT_TYPES")))
        function_name == getattr_mro(inputs, c, "FUNCTION")
    IN  setattr(inputs, c, function_name,
                Closure("ContextEnabledExecutionFuncWrapper",
                        getattr_mro(inputs, c, function_name)))

----------------------------------------------------------------------------
(* The sibling host: the four subclasses of _LayerOp are decorated in any  *)
(* order, and the host calls the ones that are                             *)

InitSiblings ==
    /\ calls = [s \in Slots |-> IdleCall]
    /\ self = [s \in Slots |-> <<>>]
    /\ http = <<>>
    /\ disk = {}
    /\ classes = [c \in LayerOps \cup {"_LayerOp"} |->
                    IF c = "_LayerOp" THEN LayerOpClass ELSE LayerOpSubclass(c)]

\* the decorator ran on c
IsDecorated(c) == "func" \in DOMAIN classes[c].own.execute

\* @add_context_input_and_output on the class statement of c
DecorateSiblingContext ==
    \E c \in LayerOps :
        /\ ~IsDecorated(c)
        /\ classes' = add_context_input_and_output_of(classes, c)
        /\ UNCHANGED <<calls, self, http, disk>>

\* @add_context_input_enabled_and_output on the class statement of c
DecorateSibling ==
    \E c \in LayerOps :
        /\ ~IsDecorated(c)
        /\ classes' = add_context_input_enabled_and_output_of(classes, c)
        /\ UNCHANGED <<calls, self, http, disk>>

\* the decorator of c is the one that adds the gate
IsGated(c) == IsDecorated(c) /\ classes[c].own.execute.def = "ContextEnabledExecutionFuncWrapper"

SiblingsInvoke ==
    \E node \in LayerOps : \E e \in BOOLEAN : \E i \in BasicInputs(node) :
        /\ IsGated(node)
        /\ Invoke(Main, Main, node, [context |-> AContext] @@ [enabled |-> e] @@ i)

SiblingsRespond ==
    /\ calls[Main].pc = "await"
    /\ \E r \in BasicResponses(calls[Main].node) : Respond(Main, r)

SiblingsUnreachable == TransportError(Main)

SiblingsForget == Forget(Main)

NextSiblings ==
    \/ DecorateSiblingContext \/ DecorateSibling
    \/ SiblingsInvoke \/ SiblingsRespond \/ SiblingsUnreachable \/ SiblingsForget

SpecSiblings == InitSiblings /\ [][NextSiblings]_vars

----------------------------------------------------------------------------
(* Claims about decorating sibling classes *)

Count(seq, x) == Cardinality({i \in 1..Len(seq) : seq[i] = x})

\* the schema a lookup on class c gives
SchemaOf(c) ==
    [RETURN_TYPES |-> getattr_mro(classes, c, "RETURN_TYPES"),
     RETURN_NAMES |-> getattr_mro(classes, c, "RETURN_NAMES"),
     INPUT_TYPES |-> CallInputTypes(classes, getattr_mro(classes, c, "INPUT_TYPES"))]

\* the names of the inputs of a schema, section after section
RECURSIVE InputNames(_)
InputNames(sections) ==
    IF Len(sections) = 0 THEN <<>>
    ELSE Keys(Head(sections)[2]) \o InputNames(Tail(sections))

\* how many wrappers lie around a function
RECURSIVE Depth(_)
Depth(f) == IF "func" \in DOMAIN f THEN 1 + Depth(f.func) ELSE 0

\* C26: decorating the sibling classes that inherit from _LayerOp, in any
\* order, leaves the base's RETURN_TYPES, RETURN_NAMES and INPUT_TYPES as
\* the class body declares them, and gives each decorated subclass exactly
\* one context entry, at the front of RETURN_TYPES and of RETURN_NAMES,
\* and exactly one context input; a subclass not yet decorated still shows
\* the base's schema.  Entries never accumulate.
C26_SiblingsDoNotAccumulate ==
    /\ classes["_LayerOp"] = LayerOpClass
    /\ SchemaOf("_LayerOp") = [RETURN_TYPES |-> <<"STRING">>,
                               RETURN_NAMES |-> <<"layer_id">>,
                               INPUT_TYPES |-> LayerOpInputs]
    /\ \A c \in LayerOps :
        IF IsDecorated(c)
        THEN /\ SchemaOf(c).RETURN_TYPES = <<CONTEXT_TYPE, "STRING">>
             /\ SchemaOf(c).RETURN_NAMES = <<"context", "layer_id">>
             /\ Count(SchemaOf(c).RETURN_TYPES, CONTEXT_TYPE) = 1
             /\ Count(SchemaOf(c).RETURN_NAMES, "context") = 1
             /\ Count(InputNames(SchemaOf(c).INPUT_TYPES.dict), "context") = 1
             /\ Count(InputNames(SchemaOf(c).INPUT_TYPES.dict), "layer_id") = 1
             /\ Depth(classes[c].own.INPUT_TYPES) = 1
             /\ Depth(classes[c].own.execute) = 1
             /\ IsGated(c) => SchemaOf(c).INPUT_TYPES = Imported[c].INPUT_TYPES
        ELSE /\ SchemaOf(c).RETURN_TYPES = <<"STRING">>
             /\ SchemaOf(c).RETURN_NAMES = <<"layer_id">>
             /\ SchemaOf(c).INPUT_TYPES = INPUT_TYPES(c)

\* all four are decorated, SaveLayer (which inherits INPUT_TYPES) and
\* MuteLayer (which overrides it) among them, and a decorated one was
\* called
C26_Witness ==
    /\ \A c \in LayerOps : IsGated(c)
    /\ SchemaOf("SaveLayer").RETURN_TYPES = <<CONTEXT_TYPE, "STRING">>
    /\ Keys(Lookup(SchemaOf("SaveLayer").INPUT_TYPES, "required"))
        = <<"layer_id", "context", "enabled">>
    /\ Keys(Lookup(SchemaOf("MuteLayer").INPUT_TYPES, "required"))
        = <<"mute", "layer_id", "context", "enabled">>
    /\ calls[Main].pc = "done" /\ calls[Main].node = "SaveLayer"
    /\ calls[Main].result.kind = "return"

\* one sibling is decorated and another is not
C26_WitnessPartial ==
    /\ IsDecorated("SetEditTarget") /\ ~IsDecorated("SaveLayer")
    /\ SchemaOf("SaveLayer").RETURN_TYPES = <<"STRING">>
    /\ SchemaOf("SetEditTarget").RETURN_NAMES = <<"context", "layer_id">>

====
